---- MODULE Spec2Model ----
(***************************************************************************)
(* Root14: a shielded-transfer protocol.  This module models                *)
(*   - the on-chain contracts R14Core (verifier registry) and R14Transfer   *)
(*     (nullifier set + root history), specification Spec;                  *)
(*   - the TransferCircuit constraint system with prove / verify,           *)
(*     specification SpecCircuit;                                           *)
(*   - the indexer's SparseMerkleTree, specification SpecTree.              *)
(*                                                                          *)
(* Field elements (ark Fr) are finite sequences of integers: <<n>> is the   *)
(* embedded integer n, and a Poseidon digest is the prefix-coded term       *)
(* <<-k>> \o x1 \o ... \o xk of its k inputs, so the hash is a free         *)
(* (collision-free) constructor.  A BytesN<32> is [fr, canon]: a 256-bit    *)
(* big-endian number congruent to fr modulo the scalar-field modulus r,     *)
(* which is either the canonical one (below r) or a non-canonical one       *)
(* (fr + r or fr + 2r; 2r < 2^256).                                         *)
(***************************************************************************)
EXTENDS Integers, Sequences, FiniteSets, TLC

VARIABLES
    core,       \* R14Core storage: [admin, circuits]
    kernel,     \* R14Kernel storage: [vk, nullifiers]
    xfer,       \* R14Transfer storage: [coreContract, circuitId, nullifiers, roots, rootAt, rootIndex]
    last,       \* the latest contract call and its outcome
    committed,  \* history: every root ever passed to commit_root
    spent,      \* history: the nullifier arguments of the successful transfers
    doubleSpend,\* history: some successful transfer repeated a spent field element
    registry,   \* history: circuit id -> the key and caller of the register call that returned it
    wit,        \* TransferCircuit: the witness bundle under test
    run,        \* TransferCircuit: what synthesis / prove / verify produced
    rng,        \* RangeCircuit: the inputs of prove and whether the witness satisfies
    tree,       \* SparseMerkleTree.leaves
    given,      \* history: per insert call, in order, [leaf, idx, before]
    probe,      \* SparseMerkleTree: the latest proof request and its answers
    chain,      \* the ledger as the RPC shows it: [events, latest]
    ix,         \* the indexer process: the poller's locals, AppState.tree, the lock
    db,         \* the indexer's database: [leaves, cursor]
    http,       \* the latest HTTP exchange with the indexer
    seen,       \* history of the indexer: [faults, boot]
    hx,         \* hex conversion: the input and what the conversion gave
    cli,        \* a wallet command: the notes before and after, the outcome
    net         \* clients of one deployment: [emitted, indexed, pending]

vars == <<core, xfer, kernel, given, last, committed, spent, doubleSpend, registry, wit, run, rng, tree, probe,
         chain, ix, db, http, seen, hx, cli, net>>
ledgerVars == <<core, xfer, kernel, last, committed, spent, doubleSpend, registry>>
circuitVars == <<wit, run, rng>>
treeVars == <<tree, probe, given>>
indexerVars == <<chain, ix, db, http, seen>>
sdkVars == <<hx, cli, net>>

----------------------------------------------------------------------------
(* Bounds of the model *)

\* distinct field elements offered as nullifiers
NumNullifiers == 1
\* root history length (the contract's ROOT_HISTORY_SIZE is 100)
ROOT_HISTORY_SIZE == 2

----------------------------------------------------------------------------
(* Field elements, 32-byte strings, hashing *)

Fr(n) == <<n>>

RECURSIVE Concat(_)
Concat(xs) == IF xs = <<>> THEN <<>> ELSE Head(xs) \o Concat(Tail(xs))

\* r14_poseidon::poseidon_hash: absorb the inputs, squeeze one element
poseidon_hash(inputs) == <<0 - Len(inputs)>> \o Concat(inputs)

hash2(a, b) == poseidon_hash(<<a, b>>)

Bytes32(f, canon) == [fr |-> f, canon |-> canon]

\* soroban Fr::from_bytes: the scalar the host functions compute with is the
\* big-endian number reduced modulo r
FrFromBytes(b) == b.fr

\* r14_sdk::serialize::serialize_fr: the canonical 32 big-endian bytes
serialize_fr(f) == Bytes32(f, TRUE)

ZeroBytes == Bytes32(Fr(0), TRUE)

\* the arguments the callers of Spec choose from
NullifierArgs == {Bytes32(Fr(i), k) : i \in 1..NumNullifiers, k \in BOOLEAN}
RootArgs == {serialize_fr(Fr(1)), serialize_fr(Fr(2))}
CmArgs == {ZeroBytes, serialize_fr(Fr(1))}

----------------------------------------------------------------------------
(* Groth16 (ark_groth16 off chain, the BLS12-381 host functions on chain)   *)

\* A verification key: the setup run it came from and the length of ic.
VK(s) == [setup |-> s, icLen |-> 5]
\* the key of the transfer circuit's setup and the key of another setup
TransferSetup == "transfer"
Setups == {TransferSetup, "other"}
VKs == {VK(s) : s \in Setups}

\* A proof is characterised by the key pair it was made under, the instance
\* (public-input assignment) it was made for and whether the witness
\* satisfied the constraint system; a tampered proof satisfies nothing.
MkProof(s, stmt, sat) == [setup |-> s, stmt |-> stmt, sat |-> sat]

\* the statement with every public input zero, for which L is ic[0]
ZeroStmt(vk) == [i \in 1..(vk.icLen - 1) |-> Fr(0)]

\* r14-core verifier.rs verify_groth16: L = ic[0] + MSM(ic[1..], inputs),
\* then the pairing check.  g1_msm traps on vectors of different lengths;
\* for an empty vector it is not called, L is ic[0] and the pairing check
\* runs as it would for the inputs that are all zero.
verify_groth16(vk, proof, public_inputs) ==
    IF Len(public_inputs) # 0 /\ Len(public_inputs) # vk.icLen - 1
    THEN "trap"
    ELSE IF /\ proof.sat
            /\ proof.setup = vk.setup
            /\ proof.stmt = IF public_inputs = <<>> THEN ZeroStmt(vk)
                                                    ELSE public_inputs
         THEN "true" ELSE "false"

----------------------------------------------------------------------------
(* Contract storage.  An Option is a sequence of length 0 or 1.             *)
(* A panic or a host trap aborts the invocation: Soroban discards every     *)
(* write and every event of a failed invocation, so a failed call returns   *)
(* the storage it was given and no events.  Entry TTLs are extended by the  *)
(* code and are not modelled.                                               *)

None == <<>>
Some(v) == <<v>>

CoreAddr == "core"
Users == {"admin", "user"}

Fail(c, x, msg) == [res |-> msg, core |-> c, xfer |-> x, events |-> <<>>]

\* R14Core::compute_circuit_id: sha256 over the key's bytes (content address)
compute_circuit_id(vk) == <<vk.setup, vk.icLen>>
CircuitIds == {compute_circuit_id(vk) : vk \in VKs}

CoreInitState == [admin |-> None, circuits |-> <<>>]

\* R14Core::init
R14Core_init(c, x, admin) ==
    IF c.admin # None
    THEN Fail(c, x, "already initialized")
    ELSE [res |-> "ok", core |-> [c EXCEPT !.admin = Some(admin)],
          xfer |-> x, events |-> <<>>]

\* variant: registering a key drops the keys stored before
R14Core_register_Forgets(c, x, signer, caller, vk) ==
    IF c.admin = None THEN Fail(c, x, "not initialized")
    ELSE IF signer # c.admin[1] THEN Fail(c, x, "auth")
    ELSE IF caller # c.admin[1] THEN Fail(c, x, "only admin can register")
    ELSE LET id == compute_circuit_id(vk) IN
         IF id \in DOMAIN c.circuits
         THEN Fail(c, x, "circuit already registered")
         ELSE [res |-> "ok",
               core |-> [c EXCEPT !.circuits = [i \in {id} |-> vk]],
               xfer |-> x, events |-> <<>>]

\* variant: neither the authorisation nor the caller is checked
R14Core_register_AnyCaller(c, x, signer, caller, vk) ==
    IF c.admin = None THEN Fail(c, x, "not initialized")
    ELSE LET id == compute_circuit_id(vk) IN
         IF id \in DOMAIN c.circuits
         THEN Fail(c, x, "circuit already registered")
         ELSE [res |-> "ok",
               core |-> [c EXCEPT !.circuits =
                            [i \in (DOMAIN c.circuits) \cup {id} |->
                                IF i = id THEN vk ELSE c.circuits[i]]],
               xfer |-> x, events |-> <<>>]

\* variant: a key whose id is already stored is stored again
R14Core_register_Overwrites(c, x, signer, caller, vk) ==
    IF c.admin = None THEN Fail(c, x, "not initialized")
    ELSE IF signer # c.admin[1] THEN Fail(c, x, "auth")
    ELSE IF caller # c.admin[1] THEN Fail(c, x, "only admin can register")
    ELSE LET id == compute_circuit_id(vk) IN
         [res |-> "ok",
          core |-> [c EXCEPT !.circuits =
                       [i \in (DOMAIN c.circuits) \cup {id} |->
                           IF i = id THEN vk ELSE c.circuits[i]]],
          xfer |-> x, events |-> <<>>]

\* R14Core::register; signer is the address that authorised the invocation
R14Core_register(c, x, signer, caller, vk) ==
    IF c.admin = None THEN Fail(c, x, "not initialized")
    ELSE IF signer # c.admin[1] THEN Fail(c, x, "auth")
    ELSE IF caller # c.admin[1] THEN Fail(c, x, "only admin can register")
    ELSE LET id == compute_circuit_id(vk) IN
         IF id \in DOMAIN c.circuits
         THEN Fail(c, x, "circuit already registered")
         ELSE [res |-> "ok",
               core |-> [c EXCEPT !.circuits =
                            [i \in (DOMAIN c.circuits) \cup {id} |->
                                IF i = id THEN vk ELSE c.circuits[i]]],
               xfer |-> x, events |-> <<>>]

\* variant: an unknown circuit id is answered with false
R14Core_verify_DefaultsFalse(c, x, circuit_id, proof, public_inputs) ==
    IF circuit_id \notin DOMAIN c.circuits
    THEN [res |-> "false", core |-> c, xfer |-> x, events |-> <<>>]
    ELSE LET result == verify_groth16(c.circuits[circuit_id], proof, public_inputs) IN
         IF result = "trap" THEN Fail(c, x, "trap")
         ELSE [res |-> result, core |-> c, xfer |-> x,
               events |-> IF result = "true"
                          THEN <<[topic |-> "verify", data |-> <<circuit_id>>]>>
                          ELSE <<>>]

\* R14Core::verify: res is "true" / "false", or the panic
R14Core_verify(c, x, circuit_id, proof, public_inputs) ==
    IF circuit_id \notin DOMAIN c.circuits
    THEN Fail(c, x, "circuit not registered")
    ELSE LET result == verify_groth16(c.circuits[circuit_id], proof, public_inputs) IN
         IF result = "trap" THEN Fail(c, x, "trap")
         ELSE [res |-> result, core |-> c, xfer |-> x,
               events |-> IF result = "true"
                          THEN <<[topic |-> "verify", data |-> <<circuit_id>>]>>
                          ELSE <<>>]

\* R14Core::get_vk
R14Core_get_vk(c, x, circuit_id) ==
    IF circuit_id \notin DOMAIN c.circuits
    THEN Fail(c, x, "circuit not registered")
    ELSE [res |-> "ok", core |-> c, xfer |-> x, events |-> <<>>,
          vk |-> c.circuits[circuit_id]]

\* R14Core::is_registered
R14Core_is_registered(c, circuit_id) == circuit_id \in DOMAIN c.circuits

TransferInitState ==
    [coreContract |-> None, circuitId |-> None, nullifiers |-> {},
     roots |-> {}, rootAt |-> <<>>, rootIndex |-> None]

\* R14Kernel: the single-contract variant keeps one key and a nullifier set
KernelInitState == [vk |-> None, nullifiers |-> {}]

\* variant: init stores the key whatever is stored
R14Kernel_init_Overwrites(k, vk) ==
    [res |-> "ok", kernel |-> [k EXCEPT !.vk = Some(vk)]]

\* R14Kernel::init
R14Kernel_init(k, vk) ==
    IF k.vk # None
    THEN [res |-> "already initialized", kernel |-> k]
    ELSE [res |-> "ok", kernel |-> [k EXCEPT !.vk = Some(vk)]]

\* variant: the index is advanced without wrapping around
commit_root_NoWrap(x, root) ==
    LET idx == IF x.rootIndex = None THEN 0 ELSE x.rootIndex[1]
        kept == IF idx \in DOMAIN x.rootAt
                THEN x.roots \ {x.rootAt[idx]}
                ELSE x.roots
    IN  [x EXCEPT !.roots = kept \cup {root},
                  !.rootAt = [i \in (DOMAIN x.rootAt) \cup {idx} |->
                                IF i = idx THEN root ELSE x.rootAt[i]],
                  !.rootIndex = Some(idx + 1)]

\* R14Transfer::commit_root: store a root in the circular buffer
commit_root(x, root) ==
    LET idx == IF x.rootIndex = None THEN 0 ELSE x.rootIndex[1]
        kept == IF idx \in DOMAIN x.rootAt
                THEN x.roots \ {x.rootAt[idx]}
                ELSE x.roots
    IN  [x EXCEPT !.roots = kept \cup {root},
                  !.rootAt = [i \in (DOMAIN x.rootAt) \cup {idx} |->
                                IF i = idx THEN root ELSE x.rootAt[i]],
                  !.rootIndex = Some((idx + 1) % ROOT_HISTORY_SIZE)]

\* R14Transfer::init
R14Transfer_init(c, x, core_contract, circuit_id, empty_root) ==
    IF x.coreContract # None
    THEN Fail(c, x, "already initialized")
    ELSE [res |-> "ok", core |-> c,
          xfer |-> commit_root([x EXCEPT !.coreContract = Some(core_contract),
                                         !.circuitId = Some(circuit_id)],
                               empty_root),
          events |-> <<>>]

\* variant: the commitment is not looked at
R14Transfer_deposit_AnyCm(c, x, cm, new_root) ==
    [res |-> "ok", core |-> c, xfer |-> commit_root(x, new_root),
     events |-> <<[topic |-> "deposit", data |-> <<cm>>]>>]

\* R14Transfer::deposit
R14Transfer_deposit(c, x, cm, new_root) ==
    IF cm = ZeroBytes
    THEN Fail(c, x, "zero commitment")
    ELSE [res |-> "ok", core |-> c, xfer |-> commit_root(x, new_root),
          events |-> <<[topic |-> "deposit", data |-> <<cm>>]>>]

\* variant: the two commitments come before the root and the nullifier
PublicInputsOf_CommitmentsFirst(old_root, nullifier, cm_0, cm_1) ==
    <<FrFromBytes(cm_0), FrFromBytes(cm_1),
      FrFromBytes(old_root), FrFromBytes(nullifier)>>

\* the public-input vector R14Transfer::transfer hands to the verifier
PublicInputsOf(old_root, nullifier, cm_0, cm_1) ==
    <<FrFromBytes(old_root), FrFromBytes(nullifier),
      FrFromBytes(cm_0), FrFromBytes(cm_1)>>

\* variant: the verifier's answer is not looked at
TransferVerify_IgnoresVerdict(c, x, proof, old_root, nullifier, cm_0, cm_1, new_root) ==
    IF x.coreContract = None \/ x.circuitId = None
    THEN Fail(c, x, "not initialized")
    ELSE [res |-> "ok", core |-> c,
          xfer |-> commit_root([x EXCEPT !.nullifiers = @ \cup {nullifier}],
                               new_root),
          events |-> <<[topic |-> "transfer",
                        data |-> <<nullifier, cm_0, cm_1>>]>>]

\* R14Transfer::transfer after its two storage checks: build the public
\* inputs, call R14Core.verify, then mark the nullifier, commit new_root and
\* publish the event
TransferVerify(c, x, proof, old_root, nullifier, cm_0, cm_1, new_root) ==
    IF x.coreContract = None \/ x.circuitId = None
    THEN Fail(c, x, "not initialized")
    ELSE IF x.coreContract[1] # CoreAddr THEN Fail(c, x, "trap")
    ELSE LET v == R14Core_verify(c, x, x.circuitId[1], proof,
                                 PublicInputsOf(old_root, nullifier, cm_0, cm_1))
         IN  IF v.res \notin {"true", "false"} THEN Fail(c, x, v.res)
             ELSE IF v.res = "false" THEN Fail(c, x, "proof verification failed")
             ELSE [res |-> "ok", core |-> c,
                   xfer |-> commit_root(
                               [x EXCEPT !.nullifiers = @ \cup {nullifier}],
                               new_root),
                   events |-> v.events \o
                              <<[topic |-> "transfer",
                                 data |-> <<nullifier, cm_0, cm_1>>]>>]

\* the root written by the latest commit_root: the slot before RootIndex
LatestRoot(x) ==
    IF x.rootIndex = None THEN None
    ELSE Some(x.rootAt[(x.rootIndex[1] + ROOT_HISTORY_SIZE - 1) % ROOT_HISTORY_SIZE])

\* variant: only the most recently committed root is accepted
R14Transfer_transfer_LatestOnly(c, x, proof, old_root, nullifier, cm_0, cm_1, new_root) ==
    IF LatestRoot(x) # Some(old_root) THEN Fail(c, x, "unknown merkle root")
    ELSE IF nullifier \in x.nullifiers THEN Fail(c, x, "nullifier already spent")
    ELSE TransferVerify(c, x, proof, old_root, nullifier, cm_0, cm_1, new_root)

\* variant: the spent-nullifier check is missing
R14Transfer_transfer_NoSpentCheck(c, x, proof, old_root, nullifier, cm_0, cm_1, new_root) ==
    IF old_root \notin x.roots THEN Fail(c, x, "unknown merkle root")
    ELSE TransferVerify(c, x, proof, old_root, nullifier, cm_0, cm_1, new_root)

\* variant: the nullifier is looked up before the root
R14Transfer_transfer_NullifierFirst(c, x, proof, old_root, nullifier, cm_0, cm_1, new_root) ==
    IF nullifier \in x.nullifiers THEN Fail(c, x, "nullifier already spent")
    ELSE IF old_root \notin x.roots THEN Fail(c, x, "unknown merkle root")
    ELSE TransferVerify(c, x, proof, old_root, nullifier, cm_0, cm_1, new_root)

\* R14Transfer::transfer
R14Transfer_transfer(c, x, proof, old_root, nullifier, cm_0, cm_1, new_root) ==
    IF old_root \notin x.roots THEN Fail(c, x, "unknown merkle root")
    ELSE IF nullifier \in x.nullifiers THEN Fail(c, x, "nullifier already spent")
    ELSE TransferVerify(c, x, proof, old_root, nullifier, cm_0, cm_1, new_root)

----------------------------------------------------------------------------
(* Specification Spec: the two contracts under arbitrary invocations        *)

\* The proofs a caller can present with a call whose public inputs are stmt:
\* one made for exactly this instance under each setup, one made for another
\* instance (another nullifier), and a tampered one.
OtherStmt(stmt) ==
    [stmt EXCEPT ![2] = IF stmt[2] = Fr(0) THEN Fr(1) ELSE Fr(0)]
ProofsFor(stmt) ==
    {MkProof(s, stmt, TRUE) : s \in Setups}
        \cup {MkProof(TransferSetup, OtherStmt(stmt), TRUE),
              MkProof(TransferSetup, stmt, FALSE)}

\* What is kept of the latest invocation: the operation, its result, the
\* number of events it published, whether it changed either contract's
\* storage, and for a transfer how its arguments stood to the storage it ran
\* on (old_root known / ever committed / latest, nullifier already spent, the
\* verifier's answer); for a core call whether it was made and authorised by
\* the admin and whether its circuit id was stored (register) or had been
\* returned by a register call (verify, get_vk, is_registered); for an init
\* whether the contract had been initialised before; for a deposit whether
\* its commitment was the all-zero one.
Call(op, o, rootKnown, rootSeen, nfSpent) ==
    [op |-> op, res |-> o.res, nEvents |-> Len(o.events),
     changed |-> (o.xfer # xfer \/ o.core # core),
     rootKnown |-> rootKnown, rootSeen |-> rootSeen, nfSpent |-> nfSpent,
     verdict |-> "none", rootLatest |-> FALSE,
     asAdmin |-> FALSE, stored |-> FALSE, zeroCm |-> FALSE, nInputs |-> 0]
NoCall == [op |-> "none", res |-> "ok", nEvents |-> 0, changed |-> FALSE,
           rootKnown |-> FALSE, rootSeen |-> FALSE, nfSpent |-> FALSE,
           verdict |-> "none", rootLatest |-> FALSE,
           asAdmin |-> FALSE, stored |-> FALSE, zeroCm |-> FALSE, nInputs |-> 0]

\* What R14Core.verify answers to the cross-contract call transfer makes with
\* these arguments, "none" when transfer does not get as far as that call.
CoreVerdict(c, x, proof, old_root, nullifier, cm_0, cm_1) ==
    IF \/ old_root \notin x.roots
       \/ nullifier \in x.nullifiers
       \/ x.coreContract = None
       \/ x.circuitId = None
       \/ x.coreContract[1] # CoreAddr
    THEN "none"
    ELSE R14Core_verify(c, x, x.circuitId[1], proof,
                        PublicInputsOf(old_root, nullifier, cm_0, cm_1)).res

LedgerInit ==
    /\ core = CoreInitState
    /\ xfer = TransferInitState
    /\ kernel = KernelInitState
    /\ last = NoCall
    /\ committed = {}
    /\ spent = {}
    /\ doubleSpend = FALSE
    /\ registry = <<>>

CircuitIdle == wit = <<>> /\ run = <<>> /\ rng = <<>>
TreeIdle == tree = <<>> /\ probe = <<>> /\ given = <<>>
LedgerIdle == LedgerInit
SdkIdle == hx = <<>> /\ cli = <<>> /\ net = <<>>
IndexerIdle ==
    /\ chain = <<>>
    /\ ix = <<>>
    /\ db = <<>>
    /\ http = <<>>
    /\ seen = <<>>

CoreInit ==
    /\ \E admin \in {"admin"} :
        LET o == R14Core_init(core, xfer, admin) IN
        /\ core' = o.core
        /\ last' = [Call("core.init", o, FALSE, FALSE, FALSE)
                      EXCEPT !.stored = core.admin # None]
    /\ UNCHANGED <<xfer, committed, spent, doubleSpend, registry, kernel, circuitVars, treeVars, indexerVars, sdkVars>>

CoreRegister ==
    /\ \E signer \in Users, caller \in Users, vk \in VKs :
        LET o == R14Core_register(core, xfer, signer, caller, vk) IN
        /\ core' = o.core
        /\ last' = [Call("core.register", o, FALSE, FALSE, FALSE)
                      EXCEPT !.asAdmin = /\ core.admin # None
                                         /\ signer = core.admin[1]
                                         /\ caller = core.admin[1],
                             !.stored = compute_circuit_id(vk) \in DOMAIN core.circuits]
        /\ registry' = IF o.res = "ok" /\ compute_circuit_id(vk) \notin DOMAIN registry
                       THEN [i \in (DOMAIN registry) \cup {compute_circuit_id(vk)} |->
                               IF i = compute_circuit_id(vk)
                               THEN [vk |-> vk, caller |-> caller]
                               ELSE registry[i]]
                       ELSE registry
    /\ UNCHANGED <<xfer, committed, spent, doubleSpend, kernel, circuitVars, treeVars, indexerVars, sdkVars>>

TransferInit ==
    /\ \E core_contract \in {CoreAddr}, circuit_id \in CircuitIds,
          empty_root \in RootArgs :
        LET o == R14Transfer_init(core, xfer, core_contract, circuit_id, empty_root) IN
        /\ xfer' = o.xfer
        /\ committed' = IF o.res = "ok" THEN committed \cup {empty_root} ELSE committed
        /\ last' = [Call("init", o, FALSE, FALSE, FALSE)
                      EXCEPT !.stored = xfer.coreContract # None]
    /\ UNCHANGED <<core, spent, doubleSpend, registry, kernel, circuitVars, treeVars, indexerVars, sdkVars>>

Deposit ==
    /\ \E cm \in CmArgs, new_root \in RootArgs :
        LET o == R14Transfer_deposit(core, xfer, cm, new_root) IN
        /\ xfer' = o.xfer
        /\ committed' = IF o.res = "ok" THEN committed \cup {new_root} ELSE committed
        /\ last' = [Call("deposit", o, FALSE, FALSE, FALSE)
                      EXCEPT !.zeroCm = cm = ZeroBytes]
    /\ UNCHANGED <<core, spent, doubleSpend, registry, kernel, circuitVars, treeVars, indexerVars, sdkVars>>

Transfer ==
    /\ \E old_root \in RootArgs, nullifier \in NullifierArgs,
          cm_0 \in CmArgs \ {ZeroBytes}, cm_1 \in CmArgs \ {ZeroBytes},
          new_root \in RootArgs :
        \E proof \in ProofsFor(PublicInputsOf(old_root, nullifier, cm_0, cm_1)) :
          LET o == R14Transfer_transfer(core, xfer, proof, old_root, nullifier,
                                        cm_0, cm_1, new_root) IN
          /\ xfer' = o.xfer
          /\ committed' = IF o.res = "ok" THEN committed \cup {new_root} ELSE committed
          /\ last' = [Call("transfer", o, old_root \in xfer.roots,
                           old_root \in committed, nullifier \in spent)
                         EXCEPT !.verdict = CoreVerdict(core, xfer, proof, old_root,
                                                        nullifier, cm_0, cm_1),
                                !.rootLatest = LatestRoot(xfer) = Some(old_root)]
          /\ spent' = IF o.res = "ok" THEN spent \cup {nullifier} ELSE spent
          /\ doubleSpend' =
                \/ doubleSpend
                \/ /\ o.res = "ok"
                   /\ \E m \in spent : FrFromBytes(m) = FrFromBytes(nullifier)
    /\ UNCHANGED <<core, registry, kernel, circuitVars, treeVars, indexerVars, sdkVars>>

\* R14Kernel.init
KernelInit ==
    /\ \E vk \in VKs :
        LET o == R14Kernel_init(kernel, vk) IN
        /\ kernel' = o.kernel
        /\ last' = [Call("kernel.init",
                         [res |-> o.res, core |-> core, xfer |-> xfer,
                          events |-> <<>>],
                         FALSE, FALSE, FALSE)
                      EXCEPT !.changed = o.kernel # kernel,
                             !.stored = kernel.vk # None]
    /\ UNCHANGED <<core, xfer, committed, spent, doubleSpend, registry,
                   circuitVars, treeVars, indexerVars, sdkVars>>

\* the public inputs of the direct verify calls: a transfer statement, and a
\* vector of another length
DirectInputs ==
    {PublicInputsOf(serialize_fr(Fr(1)), serialize_fr(Fr(1)),
                    serialize_fr(Fr(1)), serialize_fr(Fr(1))),
     <<Fr(1)>>}

\* R14Core.verify invoked directly
CoreVerifyCall ==
    /\ \E circuit_id \in CircuitIds, public_inputs \in DirectInputs :
        \E proof \in ProofsFor(public_inputs) :
          LET o == R14Core_verify(core, xfer, circuit_id, proof, public_inputs) IN
          last' = [Call("core.verify", o, FALSE, FALSE, FALSE)
                     EXCEPT !.stored = circuit_id \in DOMAIN registry]
    /\ UNCHANGED <<core, xfer, committed, spent, doubleSpend, registry,
                   kernel, circuitVars, treeVars, indexerVars, sdkVars>>

\* R14Core.verify invoked directly with a vector of any length, the empty
\* one included, and with a proof of the statement whose inputs are all zero
CoreVerifyAnyLength ==
    /\ \E circuit_id \in CircuitIds, public_inputs \in DirectInputs \cup {<<>>} :
        \E proof \in ProofsFor(public_inputs)
                         \cup {MkProof(TransferSetup, ZeroStmt(VK(TransferSetup)), TRUE)} :
          LET o == R14Core_verify(core, xfer, circuit_id, proof, public_inputs) IN
          last' = [Call("core.verify", o, FALSE, FALSE, FALSE)
                     EXCEPT !.stored = circuit_id \in DOMAIN registry,
                            !.nInputs = Len(public_inputs)]
    /\ UNCHANGED <<core, xfer, committed, spent, doubleSpend, registry,
                   kernel, circuitVars, treeVars, indexerVars, sdkVars>>

\* R14Core.get_vk
CoreGetVk ==
    /\ \E circuit_id \in CircuitIds :
        LET o == R14Core_get_vk(core, xfer, circuit_id) IN
        last' = [Call("core.get_vk", o, FALSE, FALSE, FALSE)
                   EXCEPT !.stored = circuit_id \in DOMAIN registry]
    /\ UNCHANGED <<core, xfer, committed, spent, doubleSpend, registry,
                   kernel, circuitVars, treeVars, indexerVars, sdkVars>>

\* R14Core.is_registered
CoreIsRegistered ==
    /\ \E circuit_id \in CircuitIds :
        last' = [Call("core.is_registered",
                      [res |-> IF R14Core_is_registered(core, circuit_id)
                               THEN "true" ELSE "false",
                       core |-> core, xfer |-> xfer, events |-> <<>>],
                      FALSE, FALSE, FALSE)
                   EXCEPT !.stored = circuit_id \in DOMAIN registry]
    /\ UNCHANGED <<core, xfer, committed, spent, doubleSpend, registry,
                   kernel, circuitVars, treeVars, indexerVars, sdkVars>>

Init == LedgerInit /\ CircuitIdle /\ TreeIdle /\ IndexerIdle /\ SdkIdle
Next ==
    \/ CoreInit
    \/ CoreRegister
    \/ CoreVerifyCall
    \/ CoreGetVk
    \/ CoreIsRegistered
    \/ TransferInit
    \/ Deposit
    \/ Transfer
Spec == Init /\ [][Next]_vars

----------------------------------------------------------------------------
(* Claims about the contracts, checked under Spec                           *)

\* C1 (as stated): once a transfer carrying nullifier n has succeeded, every
\* later transfer call carrying n panics with "nullifier already spent",
\* whatever its other arguments; a recorded nullifier is never removed.
C1_SpentAlwaysSaysSpent ==
    /\ (last.op = "transfer" /\ last.nfSpent)
          => last.res = "nullifier already spent"
    /\ spent \subseteq xfer.nullifiers

\* C1 (amended): a later transfer call carrying an already spent nullifier
\* never succeeds: it panics with "nullifier already spent" when its old_root
\* is a known root and with "unknown merkle root" when it is not (the root is
\* looked up first); and a recorded nullifier is never removed.
C1_SpentNullifierRejected ==
    /\ (last.op = "transfer" /\ last.nfSpent)
          => last.res = IF last.rootKnown
                        THEN "nullifier already spent"
                        ELSE "unknown merkle root"
    /\ spent \subseteq xfer.nullifiers

\* C1 witness: a spent nullifier was presented again with a known root, after
\* a deposit or transfer had moved the root index on, and was refused.
C1_Witness ==
    /\ last.op = "transfer"
    /\ last.nfSpent
    /\ last.rootKnown
    /\ last.res = "nullifier already spent"
    /\ Cardinality(DOMAIN xfer.rootAt) = ROOT_HISTORY_SIZE

\* C2: no two successful transfers carry nullifier arguments that denote the
\* same field element, also when the two byte strings differ by a multiple of
\* the field modulus.
C2_NoDoubleSpend == ~doubleSpend

\* C10: a transfer whose old_root is not in the known-root set panics with
\* "unknown merkle root", and then records no nullifier, commits no root and
\* emits no event.
C10_UnknownRootRejected ==
    (last.op = "transfer" /\ ~last.rootKnown)
        => /\ last.res = "unknown merkle root"
           /\ ~last.changed
           /\ last.nEvents = 0

\* C10 witness: a transfer named a root that had been committed and has since
\* been evicted from the history, and was refused.
C10_Witness ==
    /\ last.op = "transfer"
    /\ ~last.rootKnown
    /\ last.rootSeen
    /\ last.res = "unknown merkle root"
    /\ xfer.nullifiers # {}

\* C11: when R14Core.verify answers false to the call transfer makes, transfer
\* panics with "proof verification failed", changes no storage and emits no
\* event; and from any state, after such a refused call the same nullifier
\* is still unspent and a transfer of it with a verifying proof succeeds.
C11_FailedProofNoEffect ==
    /\ (last.op = "transfer" /\ last.verdict = "false")
          => /\ last.res = "proof verification failed"
             /\ ~last.changed
             /\ last.nEvents = 0
    /\ \A old_root \in RootArgs, nullifier \in NullifierArgs,
          cm \in CmArgs \ {ZeroBytes}, new_root \in RootArgs :
         \A bad \in ProofsFor(PublicInputsOf(old_root, nullifier, cm, cm)) :
            CoreVerdict(core, xfer, bad, old_root, nullifier, cm, cm) = "false"
            => LET o == R14Transfer_transfer(core, xfer, bad, old_root,
                                             nullifier, cm, cm, new_root)
               IN  /\ o.res = "proof verification failed"
                   /\ o.xfer = xfer
                   /\ nullifier \notin o.xfer.nullifiers
                   /\ new_root \in o.xfer.roots <=> new_root \in xfer.roots
                   /\ o.events = <<>>
                   /\ \E good \in ProofsFor(PublicInputsOf(old_root, nullifier, cm, cm)) :
                         R14Transfer_transfer(o.core, o.xfer, good, old_root,
                                              nullifier, cm, cm, new_root).res = "ok"

\* C11 witness: a transfer was refused by the verifier on a ledger that had
\* already accepted another transfer.
C11_Witness ==
    /\ last.op = "transfer"
    /\ last.verdict = "false"
    /\ last.res = "proof verification failed"
    /\ xfer.nullifiers # {}

\* C12 (as stated): a transfer whose old_root is no longer the most recently
\* committed root is rejected and does not mark the nullifier spent.
C12_StaleRootRejected ==
    (last.op = "transfer" /\ ~last.rootLatest)
        => last.res # "ok" /\ ~last.changed

\* C12 (amended): a transfer whose old_root is not the most recently committed
\* root is rejected exactly when that root is no longer a known root: then it
\* panics with "unknown merkle root" and marks nothing; while the root is
\* still in the known-root history the transfer is accepted when its
\* nullifier is unspent and its proof verifies.
C12_StaleRootRejectedWhenEvicted ==
    (last.op = "transfer" /\ ~last.rootLatest)
        => /\ ~last.rootKnown
                => last.res = "unknown merkle root" /\ ~last.changed
           /\ (last.rootKnown /\ last.verdict = "true")
                => last.res = "ok" /\ last.changed

\* C12 witness: a transfer against a root that was not the latest one, but
\* still known, was accepted.
C12_Witness ==
    /\ last.op = "transfer"
    /\ ~last.rootLatest
    /\ last.rootKnown
    /\ last.res = "ok"

\* C32: every one of the last ROOT_HISTORY_SIZE roots committed by init,
\* deposit or transfer is accepted as old_root.  commit_root writes the
\* committed root to slot RootIndex and advances RootIndex by one modulo
\* ROOT_HISTORY_SIZE, so the RootAt slots hold exactly the last
\* ROOT_HISTORY_SIZE committed roots: each of them is a known root, also
\* when the same root value was committed more than once.
C32_RecentRootsKnown ==
    \A i \in DOMAIN xfer.rootAt : xfer.rootAt[i] \in xfer.roots

\* C38: the root history is bounded: after any sequence of init, deposit
\* and transfer calls the stored RootIndex is below ROOT_HISTORY_SIZE, at
\* most ROOT_HISTORY_SIZE RootAt slots exist, and every root in the
\* known-root set is the content of some RootAt slot, so the known-root set
\* never holds more than ROOT_HISTORY_SIZE roots.
C38_RootHistoryBounded ==
    /\ xfer.rootIndex # None => xfer.rootIndex[1] \in 0 .. (ROOT_HISTORY_SIZE - 1)
    /\ DOMAIN xfer.rootAt \subseteq 0 .. (ROOT_HISTORY_SIZE - 1)
    /\ \A r \in xfer.roots : \E i \in DOMAIN xfer.rootAt : xfer.rootAt[i] = r
    /\ Cardinality(xfer.roots) <= ROOT_HISTORY_SIZE

\* C38 witness: every slot of the history is in use, RootIndex has wrapped
\* around to 0, and a root committed earlier has been evicted.
C38_Witness ==
    /\ DOMAIN xfer.rootAt = 0 .. (ROOT_HISTORY_SIZE - 1)
    /\ xfer.rootIndex = Some(0)
    /\ \E r \in committed : r \notin xfer.roots
    /\ last.op \in {"deposit", "transfer"}

\* C13: register is content-addressed: every stored key sits under the id
\* computed from that key alone, different keys have different ids, and the
\* admin registering a key whose id is already stored panics with "circuit
\* already registered" and changes nothing.
C13_ContentAddressedRegister ==
    /\ \A id \in DOMAIN core.circuits :
          compute_circuit_id(core.circuits[id]) = id
    /\ \A v1 \in VKs, v2 \in VKs :
          compute_circuit_id(v1) = compute_circuit_id(v2) => v1 = v2
    /\ (last.op = "core.register" /\ last.asAdmin /\ last.stored)
          => last.res = "circuit already registered" /\ ~last.changed
    /\ \A vk \in VKs :
          (core.admin # None /\ compute_circuit_id(vk) \in DOMAIN core.circuits)
          => LET o == R14Core_register(core, xfer, core.admin[1], core.admin[1], vk)
             IN  /\ o.res = "circuit already registered"
                 /\ o.core = core
                 /\ R14Core_get_vk(o.core, o.xfer, compute_circuit_id(vk)).vk = vk

\* C13 witness: with both keys stored, the admin registered one of them again
\* and was refused.
C13_Witness ==
    /\ last.op = "core.register"
    /\ last.asAdmin
    /\ last.stored
    /\ last.res = "circuit already registered"
    /\ Cardinality(DOMAIN core.circuits) = 2

\* C14: a register call that is not made and authorised by the admin set by
\* init panics and stores nothing, so every stored circuit was registered by
\* a call of the admin.
C14_OnlyAdminRegisters ==
    /\ (last.op = "core.register" /\ ~last.asAdmin)
          => /\ last.res \in {"not initialized", "auth", "only admin can register"}
             /\ ~last.changed
    /\ \A id \in DOMAIN core.circuits :
          /\ id \in DOMAIN registry
          /\ core.admin # None
          /\ registry[id].caller = core.admin[1]

\* C14 witness: with a key already stored, a caller other than the admin
\* presented a key under the admin's authorisation and was refused.
C14_Witness ==
    /\ last.op = "core.register"
    /\ ~last.asAdmin
    /\ last.res = "only admin can register"
    /\ core.circuits # <<>>

\* C15: verify and get_vk called with a circuit id that no register call has
\* returned panic with "circuit not registered", return nothing and emit no
\* verify event.
C15_UnregisteredCircuitPanics ==
    (last.op \in {"core.verify", "core.get_vk"} /\ ~last.stored)
        => /\ last.res = "circuit not registered"
           /\ last.nEvents = 0
           /\ ~last.changed

\* C15 witness: with one key registered, verify was called with the id of
\* the other key and panicked.
C15_Witness ==
    /\ last.op = "core.verify"
    /\ ~last.stored
    /\ last.res = "circuit not registered"
    /\ Cardinality(DOMAIN core.circuits) = 1

\* C30 (checked under SpecInit): a public-input vector of the wrong length
\* is reported as an outcome distinct from a failed verification:
\* R14Core.verify (verify_groth16) neither returns a plain boolean nor
\* silently runs the pairing check when the number of public inputs differs
\* from ic.len() - 1, the empty vector included.
C30_WrongLengthDistinct ==
    (/\ last.op = "core.verify"
     /\ last.stored
     /\ last.nInputs # VK(TransferSetup).icLen - 1)
        => last.res \notin {"true", "false"}

\* C16: is_registered(id) is true exactly when an earlier register call
\* returned id, get_vk(id) then returns the key passed to that call, and no
\* later init, register or verify removes or replaces a registration.
C16_RegistryPersists ==
    /\ \A id \in CircuitIds :
          R14Core_is_registered(core, id) <=> id \in DOMAIN registry
    /\ \A id \in DOMAIN registry :
          LET o == R14Core_get_vk(core, xfer, id) IN
          o.res = "ok" /\ o.vk = registry[id].vk
    /\ last.op = "core.is_registered"
          => (last.res = "true" <=> last.stored)
    /\ (last.op = "core.get_vk" /\ last.stored) => last.res = "ok"

\* C16 witness: after both keys were registered and a transfer had gone
\* through the verifier, is_registered answered true.
C16_Witness ==
    /\ last.op = "core.is_registered"
    /\ last.stored
    /\ last.res = "true"
    /\ Cardinality(DOMAIN registry) = 2
    /\ xfer.nullifiers # {}

\* Deployment: the three contracts are initialised, keys are registered and
\* roots are committed by deposits, in any order and any number of times.
NextInit ==
    \/ CoreInit
    \/ CoreRegister
    \/ TransferInit
    \/ KernelInit
    \/ Deposit
    \/ CoreVerifyAnyLength
SpecInit == Init /\ [][NextInit]_vars

\* C17 (checked under SpecInit): an init call on a contract that is already initialised (R14Core,
\* R14Transfer, R14Kernel) panics with "already initialized" and changes
\* nothing: the admin, the core address and circuit id, the stored key and
\* the root history stay as they were.
C17_InitOnce ==
    /\ (last.op \in {"core.init", "init", "kernel.init"} /\ last.stored)
          => last.res = "already initialized" /\ ~last.changed
    /\ core.admin # None
          => \A admin \in Users :
                LET o == R14Core_init(core, xfer, admin) IN
                o.res = "already initialized" /\ o.core = core
    /\ xfer.coreContract # None
          => \A circuit_id \in CircuitIds, empty_root \in RootArgs :
                LET o == R14Transfer_init(core, xfer, CoreAddr, circuit_id, empty_root) IN
                o.res = "already initialized" /\ o.xfer = xfer
    /\ kernel.vk # None
          => \A vk \in VKs :
                LET o == R14Kernel_init(kernel, vk) IN
                o.res = "already initialized" /\ o.kernel = kernel

\* C17 witness: with the three contracts initialised, a key registered and
\* the root history filled by deposits, init was called on R14Transfer again
\* and panicked.
C17_Witness ==
    /\ last.op = "init"
    /\ last.stored
    /\ last.res = "already initialized"
    /\ core.admin # None
    /\ kernel.vk # None
    /\ core.circuits # <<>>
    /\ Cardinality(xfer.roots) = ROOT_HISTORY_SIZE

\* C18: deposit with the all-zero commitment panics with "zero commitment"
\* and has no effect: new_root does not join the known roots, the root index
\* does not advance and no deposit event is published.
C18_ZeroCommitmentRejected ==
    /\ (last.op = "deposit" /\ last.zeroCm)
          => /\ last.res = "zero commitment"
             /\ ~last.changed
             /\ last.nEvents = 0
    /\ \A new_root \in RootArgs :
          LET o == R14Transfer_deposit(core, xfer, ZeroBytes, new_root) IN
          /\ o.res = "zero commitment"
          /\ o.xfer.roots = xfer.roots
          /\ o.xfer.rootAt = xfer.rootAt
          /\ o.xfer.rootIndex = xfer.rootIndex
          /\ o.events = <<>>

\* C18 witness: on an initialised contract a deposit of the all-zero
\* commitment named a root that is not known, and panicked.
C18_Witness ==
    /\ last.op = "deposit"
    /\ last.zeroCm
    /\ last.res = "zero commitment"
    /\ xfer.coreContract # None
    /\ \E new_root \in RootArgs : new_root \notin xfer.roots

----------------------------------------------------------------------------
(* The transfer circuit: notes, commitments, Merkle paths                   *)

\* depth of the note tree (r14_types::MERKLE_DEPTH is 20)
MERKLE_DEPTH == 2
\* width of Note.value (u64 in the code)
VALUE_BITS == 1
\* width of Note.app_tag (u32 in the code)
TAG_BITS == 1

Values == 0 .. (2^VALUE_BITS - 1)
Tags == 0 .. (2^TAG_BITS - 1)

\* The scalar-field modulus r of BLS12-381 lies just below 2^255, that is
\* 2^(4*64 - 1) for the 64-bit values embedded in it; the model keeps that
\* proportion between the field and the value width.
FieldModulus_Narrow == 2^VALUE_BITS
FieldModulus == 2^(4 * VALUE_BITS - 1) - 1

\* Fr::from(u64)
FrFromU64(v) == Fr(v % FieldModulus)

\* addition of two embedded integers in the field
FrAdd(a, b) == Fr((a[1] + b[1]) % FieldModulus)

\* r14_types::Note
Note(value, app_tag, owner, nonce) ==
    [value |-> value, app_tag |-> app_tag, owner |-> owner, nonce |-> nonce]

\* r14_types::MerklePath
MerklePath(siblings, indices) == [siblings |-> siblings, indices |-> indices]

\* r14_poseidon::commitment
commitment(note) ==
    poseidon_hash(<<FrFromU64(note.value), FrFromU64(note.app_tag),
                    note.owner, note.nonce>>)

\* r14_poseidon::owner_hash
owner_hash(sk) == poseidon_hash(<<sk>>)

\* the loop of the old_root input closure of TransferCircuit, from step i on
RECURSIVE ClosureLoop(_, _, _)
ClosureLoop(current, path, i) ==
    IF i > Len(path.siblings) THEN current
    ELSE ClosureLoop(IF path.indices[i]
                     THEN hash2(path.siblings[i], current)
                     ELSE hash2(current, path.siblings[i]),
                     path, i + 1)

\* the loop of prove that computes old_root natively, from step i on
RECURSIVE ProveLoop(_, _, _)
ProveLoop(current, merkle_path, i) ==
    IF i > Len(merkle_path.siblings) THEN current
    ELSE ProveLoop(IF merkle_path.indices[i]
                   THEN hash2(merkle_path.siblings[i], current)
                   ELSE hash2(current, merkle_path.siblings[i]),
                   merkle_path, i + 1)

\* the loop of the indexer's verify_proof, from step i on
RECURSIVE VerifyLoop(_, _, _)
VerifyLoop(current, path, i) ==
    IF i > Len(path.siblings) THEN current
    ELSE VerifyLoop(IF path.indices[i]
                    THEN hash2(path.siblings[i], current)
                    ELSE hash2(current, path.siblings[i]),
                    path, i + 1)

\* r14_indexer::tree::verify_proof
verify_proof(leaf, path, root) == VerifyLoop(leaf, path, 1) = root

\* Boolean::select(a, b): a when the bit is set, b otherwise
select_Swapped(cond, a, b) == IF cond THEN b ELSE a
select(cond, a, b) == IF cond THEN a ELSE b

\* the loop of the gadget verify_merkle_path over (sibling, is_right) pairs
RECURSIVE GadgetLoop(_, _, _)
GadgetLoop(current, path, i) ==
    IF i > Len(path) THEN current
    ELSE LET sibling == path[i][1]
             is_right == path[i][2]
             left == select(is_right, sibling, current)
             right == select(is_right, current, sibling)
         IN  GadgetLoop(hash2(left, right), path, i + 1)

\* merkle_gadget::verify_merkle_path: the root it recomputes must equal root
verify_merkle_path(leaf, path, root) == GadgetLoop(leaf, path, 1) = root

----------------------------------------------------------------------------
(* TransferCircuit::generate_constraints                                    *)

\* A circuit with its witnesses:
\* [secret_key, consumed_note, merkle_path, created_notes].
TransferCircuit(secret_key, consumed_note, merkle_path, created_notes) ==
    [secret_key |-> secret_key, consumed_note |-> consumed_note,
     merkle_path |-> merkle_path, created_notes |-> created_notes]

\* The values the allocation closures give to the four public inputs and to
\* the private witnesses.  The path witnesses are read at 0 .. MERKLE_DEPTH-1.
Assignment(w) ==
    [old_root_pub |-> ClosureLoop(commitment(w.consumed_note), w.merkle_path, 1),
     nullifier_pub |-> poseidon_hash(<<w.secret_key, w.consumed_note.nonce>>),
     out_cm_0_pub |-> commitment(w.created_notes[1]),
     out_cm_1_pub |-> commitment(w.created_notes[2]),
     sk_var |-> w.secret_key,
     consumed_value |-> FrFromU64(w.consumed_note.value),
     consumed_app_tag |-> FrFromU64(w.consumed_note.app_tag),
     consumed_owner |-> w.consumed_note.owner,
     consumed_nonce |-> w.consumed_note.nonce,
     path_vars |-> [i \in 1..MERKLE_DEPTH |->
                      <<w.merkle_path.siblings[i], w.merkle_path.indices[i]>>],
     created_values |-> [i \in 1..2 |-> FrFromU64(w.created_notes[i].value)],
     created_app_tags |-> [i \in 1..2 |-> FrFromU64(w.created_notes[i].app_tag)],
     created_owners |-> [i \in 1..2 |-> w.created_notes[i].owner],
     created_nonces |-> [i \in 1..2 |-> w.created_notes[i].nonce]]

\* Constraint 1: ownership
Ownership_Dropped(a) == TRUE
Ownership(a) == poseidon_hash(<<a.sk_var>>) = a.consumed_owner

\* Constraint 2: the consumed note's commitment
consumed_cm(a) ==
    poseidon_hash(<<a.consumed_value, a.consumed_app_tag,
                    a.consumed_owner, a.consumed_nonce>>)

\* Constraint 3: Merkle inclusion
MerkleInclusion(a) ==
    verify_merkle_path(consumed_cm(a), a.path_vars, a.old_root_pub)

\* Constraint 4: nullifier
NullifierConstraint(a) ==
    poseidon_hash(<<a.sk_var, a.consumed_nonce>>) = a.nullifier_pub

\* Constraint 5: output commitments
OutputCommitments(a) ==
    /\ poseidon_hash(<<a.created_values[1], a.created_app_tags[1],
                       a.created_owners[1], a.created_nonces[1]>>) = a.out_cm_0_pub
    /\ poseidon_hash(<<a.created_values[2], a.created_app_tags[2],
                       a.created_owners[2], a.created_nonces[2]>>) = a.out_cm_1_pub

\* Constraint 6: value conservation, in the field
ValueConservation(a) ==
    a.consumed_value = FrAdd(a.created_values[1], a.created_values[2])

\* Constraint 7: application tag match
AppTagMatch_FirstOnly(a) == a.consumed_app_tag = a.created_app_tags[1]
AppTagMatch(a) ==
    /\ a.consumed_app_tag = a.created_app_tags[1]
    /\ a.consumed_app_tag = a.created_app_tags[2]

\* generate_constraints followed by is_satisfied: the instance (public-input
\* assignment) and whether every constraint holds.  Reading path witness i of
\* a path shorter than MERKLE_DEPTH is an out-of-bounds index: a panic.
generate_constraints(w) ==
    IF \/ Len(w.merkle_path.siblings) < MERKLE_DEPTH
       \/ Len(w.merkle_path.indices) < MERKLE_DEPTH
    THEN [res |-> "panic", instance |-> <<>>, satisfied |-> FALSE]
    ELSE LET a == Assignment(w) IN
         [res |-> "ok",
          instance |-> <<a.old_root_pub, a.nullifier_pub,
                         a.out_cm_0_pub, a.out_cm_1_pub>>,
          satisfied |-> /\ Ownership(a)
                        /\ MerkleInclusion(a)
                        /\ NullifierConstraint(a)
                        /\ OutputCommitments(a)
                        /\ ValueConservation(a)
                        /\ AppTagMatch(a)]

----------------------------------------------------------------------------
(* r14-circuit lib.rs: prove, verify_offchain; the way to the contracts     *)

PublicInputs(root, nf, cm_0, cm_1) ==
    [old_root |-> root, nullifier |-> nf,
     out_commitment_0 |-> cm_0, out_commitment_1 |-> cm_1]

\* PublicInputs::to_vec
to_vec_Swapped(pi) ==
    <<pi.nullifier, pi.old_root, pi.out_commitment_0, pi.out_commitment_1>>
to_vec(pi) ==
    <<pi.old_root, pi.nullifier, pi.out_commitment_0, pi.out_commitment_1>>

\* r14_circuit::prove under the proving key of setup pk.  Groth16::prove
\* synthesises the circuit; a build with debug assertions asserts that the
\* constraint system is satisfied, a release build produces a proof that
\* verifies for nothing.  The public inputs are computed natively, apart from
\* the circuit's own input closures.
prove(pk, secret_key, consumed_note, merkle_path, created_notes, debug) ==
    LET cs == generate_constraints(
                  TransferCircuit(secret_key, consumed_note,
                                  merkle_path, created_notes))
    IN  IF Len(merkle_path.indices) < Len(merkle_path.siblings)
        THEN [res |-> "panic", proof |-> <<>>, public_inputs |-> <<>>]
        ELSE IF cs.res = "panic" \/ (debug /\ ~cs.satisfied)
        THEN [res |-> "panic", proof |-> <<>>, public_inputs |-> <<>>]
        ELSE [res |-> "ok",
              proof |-> MkProof(pk, cs.instance, cs.satisfied),
              public_inputs |->
                  PublicInputs(
                      ProveLoop(commitment(consumed_note), merkle_path, 1),
                      poseidon_hash(<<secret_key, consumed_note.nonce>>),
                      commitment(created_notes[1]),
                      commitment(created_notes[2]))]

\* r14_circuit::verify_offchain: ark's verifier answers Err for a wrong
\* number of inputs, which unwrap_or turns into false
verify_offchain(vk, proof, public_inputs) ==
    LET v == to_vec(public_inputs) IN
    /\ Len(v) + 1 = vk.icLen
    /\ proof.sat
    /\ proof.setup = vk.setup
    /\ proof.stmt = v

\* serialize_proof_for_soroban followed by the tests' hex_to_bytes32: the
\* proof as it is, each public input as its canonical 32 bytes
serialize_proof_for_soroban(proof, public_inputs) ==
    [proof |-> proof,
     public_inputs |-> [i \in DOMAIN public_inputs |->
                            serialize_fr(public_inputs[i])]]

\* transfer_e2e.rs deploy_contracts: core init, register the key, transfer
\* init with an empty root, one deposit that seeds old_root
TestEmptyRoot == Bytes32(Fr(5), FALSE)
TestNewRoot == Bytes32(Fr(6), FALSE)
DummyCm == serialize_fr(Fr(1))
deploy_contracts(svk, old_root) ==
    LET s1 == R14Core_init(CoreInitState, TransferInitState, "admin")
        s2 == R14Core_register(s1.core, s1.xfer, "admin", "admin", svk)
        s3 == R14Transfer_init(s2.core, s2.xfer, CoreAddr,
                               compute_circuit_id(svk), TestEmptyRoot)
        s4 == R14Transfer_deposit(s3.core, s3.xfer, DummyCm, old_root)
    IN  [res |-> IF s1.res = "ok" /\ s2.res = "ok" /\ s3.res = "ok"
                 THEN s4.res ELSE "panic",
         core |-> s4.core, xfer |-> s4.xfer]

----------------------------------------------------------------------------
(* Specification SpecCircuit: a witness bundle is synthesised, proved,      *)
(* verified off chain and submitted to freshly deployed contracts           *)

SecretKeys == {Fr(1), Fr(2)}

\* paths of exactly MERKLE_DEPTH levels, one shorter and one longer path
SiblingVectors(len) == {[i \in 1..len |-> Fr(0)], [i \in 1..len |-> Fr(i)]}
PathsOfLen(len) ==
    {MerklePath(sv, iv) : sv \in SiblingVectors(len), iv \in [1..len -> BOOLEAN]}
Paths ==
    PathsOfLen(MERKLE_DEPTH)
        \cup {MerklePath([i \in 1..len |-> Fr(0)], [i \in 1..len |-> FALSE]) :
                 len \in {MERKLE_DEPTH - 1, MERKLE_DEPTH + 1}}

\* the sender's note, owned by the holder of secret key 1
ConsumedNotes ==
    {Note(v, t, owner_hash(Fr(1)), Fr(3)) : v \in Values, t \in Tags}
\* a note to a recipient and the change back to the sender
CreatedNotes ==
    {<<Note(v0, t0, owner_hash(Fr(2)), Fr(4)),
       Note(v1, t1, owner_hash(Fr(1)), Fr(5))>> :
        v0 \in Values, t0 \in Tags, v1 \in Values, t1 \in Tags}

WitnessBundles ==
    {TransferCircuit(sk, n, p, c) :
        sk \in SecretKeys, n \in ConsumedNotes, p \in Paths, c \in CreatedNotes}

NoRun == [step |-> "none", sat |-> FALSE, instance |-> <<>>,
          proof |-> <<>>, inputs |-> <<>>, offchain |-> FALSE,
          coreVerify |-> "none", transfer |-> "none"]

InitCircuit ==
    /\ LedgerIdle
    /\ TreeIdle
    /\ IndexerIdle
    /\ SdkIdle
    /\ wit \in WitnessBundles
    /\ run = NoRun
    /\ rng = <<>>

\* the tests' native check: generate_constraints, then cs.is_satisfied()
Synthesize ==
    /\ run.step = "none"
    /\ LET cs == generate_constraints(wit) IN
       run' = [run EXCEPT !.step = IF cs.res = "ok" THEN "synthesized"
                                   ELSE "synthesis panicked",
                          !.sat = cs.satisfied,
                          !.instance = cs.instance]
    /\ UNCHANGED <<wit, rng, ledgerVars, treeVars, indexerVars, sdkVars>>

Prove ==
    /\ run.step = "synthesized"
    /\ \E debug \in BOOLEAN :
        LET o == prove(TransferSetup, wit.secret_key, wit.consumed_note,
                       wit.merkle_path, wit.created_notes, debug) IN
        run' = [run EXCEPT !.step = IF o.res = "ok" THEN "proved"
                                    ELSE "prove panicked",
                           !.proof = o.proof,
                           !.inputs = o.public_inputs]
    /\ UNCHANGED <<wit, rng, ledgerVars, treeVars, indexerVars, sdkVars>>

VerifyOffchain ==
    /\ run.step = "proved"
    /\ run' = [run EXCEPT !.step = "verified",
                          !.offchain = verify_offchain(VK(TransferSetup),
                                                       run.proof, run.inputs)]
    /\ UNCHANGED <<wit, rng, ledgerVars, treeVars, indexerVars, sdkVars>>

Deploy ==
    /\ run.step = "verified"
    /\ LET sp == serialize_proof_for_soroban(run.proof, to_vec(run.inputs))
           d == deploy_contracts(VK(TransferSetup), sp.public_inputs[1])
       IN  /\ d.res = "ok"
           /\ core' = d.core
           /\ xfer' = d.xfer
    /\ run' = [run EXCEPT !.step = "deployed"]
    /\ UNCHANGED <<wit, rng, last, committed, spent, doubleSpend, registry, kernel, treeVars, indexerVars, sdkVars>>

\* core_contract.rs register_and_verify: R14Core.verify with the inputs
\* rebuilt by Fr::from_bytes
CoreVerify ==
    /\ run.step = "deployed"
    /\ LET sp == serialize_proof_for_soroban(run.proof, to_vec(run.inputs))
           o == R14Core_verify(core, xfer, compute_circuit_id(VK(TransferSetup)),
                               sp.proof,
                               [i \in DOMAIN sp.public_inputs |->
                                    FrFromBytes(sp.public_inputs[i])])
       IN  run' = [run EXCEPT !.step = "core verified", !.coreVerify = o.res]
    /\ UNCHANGED <<wit, rng, ledgerVars, treeVars, indexerVars, sdkVars>>

\* transfer_e2e.rs test_transfer_e2e: R14Transfer.transfer
SubmitTransfer ==
    /\ run.step = "core verified"
    /\ LET sp == serialize_proof_for_soroban(run.proof, to_vec(run.inputs))
           o == R14Transfer_transfer(core, xfer, sp.proof,
                                     sp.public_inputs[1], sp.public_inputs[2],
                                     sp.public_inputs[3], sp.public_inputs[4],
                                     TestNewRoot)
       IN  /\ run' = [run EXCEPT !.step = "submitted", !.transfer = o.res]
           /\ xfer' = o.xfer
    /\ UNCHANGED <<wit, rng, core, last, committed, spent, doubleSpend, registry, kernel, treeVars, indexerVars, sdkVars>>

NextCircuit ==
    \/ Synthesize
    \/ Prove
    \/ VerifyOffchain
    \/ Deploy
    \/ CoreVerify
    \/ SubmitTransfer
SpecCircuit == InitCircuit /\ [][NextCircuit]_vars

----------------------------------------------------------------------------
(* Claims about the circuit, checked under SpecCircuit                      *)

\* lib.rs test_scenario: the secret key hashes to the consumed note's owner,
\* the path has MERKLE_DEPTH levels, value is conserved, the tags are equal
CorrectlyConstructed(w) ==
    /\ owner_hash(w.secret_key) = w.consumed_note.owner
    /\ Len(w.merkle_path.siblings) = MERKLE_DEPTH
    /\ Len(w.merkle_path.indices) = MERKLE_DEPTH
    /\ w.consumed_note.value
          = w.created_notes[1].value + w.created_notes[2].value
    /\ w.created_notes[1].app_tag = w.consumed_note.app_tag
    /\ w.created_notes[2].app_tag = w.consumed_note.app_tag

Synthesized == {"synthesized", "prove panicked", "proved", "verified",
                "deployed", "core verified", "submitted"}
Proved == {"proved", "verified", "deployed", "core verified", "submitted"}
Verified == {"verified", "deployed", "core verified", "submitted"}

\* C3: for a correctly constructed witness bundle, synthesis and prove do not
\* panic, the four public inputs prove returns are the circuit's instance,
\* verify_offchain is true under the key of the same setup, and on freshly
\* deployed contracts R14Core.verify returns true and R14Transfer.transfer
\* succeeds with the serialized proof and inputs.
C3_ValidProofVerifies ==
    CorrectlyConstructed(wit) =>
        /\ run.step \notin {"synthesis panicked", "prove panicked"}
        /\ run.step \in Synthesized => run.sat
        /\ run.step \in Proved => to_vec(run.inputs) = run.instance
        /\ run.step \in Verified => run.offchain
        /\ run.step \in {"core verified", "submitted"} => run.coreVerify = "true"
        /\ run.step = "submitted" => run.transfer = "ok"

\* C3 witness: a correct bundle spending a non-zero value through a path with
\* a right-hand step went all the way through the transfer contract.
C3_Witness ==
    /\ CorrectlyConstructed(wit)
    /\ wit.consumed_note.value > 0
    /\ \E i \in 1..MERKLE_DEPTH : wit.merkle_path.indices[i]
    /\ run.step = "submitted"
    /\ run.offchain
    /\ run.coreVerify = "true"
    /\ run.transfer = "ok"
    /\ xfer.nullifiers = {serialize_fr(run.inputs.nullifier)}

\* the orders four inputs can be put in
InputOrders == {p \in [1..4 -> 1..4] : \A i, j \in 1..4 : p[i] = p[j] => i = j}

\* C27: the four public inputs keep one order everywhere: the circuit's
\* instance, PublicInputs::to_vec and the vector R14Transfer.transfer builds
\* are old_root, nullifier, out_commitment_0, out_commitment_1; the key's ic
\* has 5 entries, one more than the inputs, and verify_groth16 pairs
\* ic[i+1] with input i, so the inputs in any other order do not verify.
C27_InputOrder ==
    run.step \in Proved =>
        LET ordered == <<run.inputs.old_root, run.inputs.nullifier,
                         run.inputs.out_commitment_0, run.inputs.out_commitment_1>>
            sp == serialize_proof_for_soroban(run.proof, to_vec(run.inputs))
            vk == VK(TransferSetup)
        IN  /\ run.instance = ordered
            /\ to_vec(run.inputs) = ordered
            /\ PublicInputsOf(sp.public_inputs[1], sp.public_inputs[2],
                              sp.public_inputs[3], sp.public_inputs[4]) = ordered
            /\ vk.icLen = 5
            /\ vk.icLen = Len(run.instance) + 1
            /\ (verify_groth16(vk, run.proof, ordered) = "true") <=> run.sat
            /\ run.sat =>
                  \A p \in InputOrders :
                      LET permuted == [i \in 1..4 |-> ordered[p[i]]] IN
                      permuted # ordered
                          => verify_groth16(vk, run.proof, permuted) # "true"

\* C27 witness: a transfer whose four public inputs are pairwise different
\* was proved and accepted by the transfer contract.
C27_Witness ==
    /\ run.step = "submitted"
    /\ run.transfer = "ok"
    /\ run.sat
    /\ \A i, j \in 1..4 : run.instance[i] = run.instance[j] => i = j

\* C4: the constraint system is satisfied only if the consumed value equals
\* the integer sum of the two created values; the in-field sum of two values
\* of the value width is their integer sum, it never wraps.
C4_ValueConserved ==
    /\ (run.step \in Synthesized /\ run.sat)
          => wit.consumed_note.value
                = wit.created_notes[1].value + wit.created_notes[2].value
    /\ \A a \in Values, b \in Values :
          FrAdd(FrFromU64(a), FrFromU64(b)) = Fr(a + b)

\* C4 witness: a bundle that is correct but for its values, whose created
\* values sum beyond the value width, was synthesised and is unsatisfied.
C4_Witness ==
    /\ run.step = "synthesized"
    /\ ~run.sat
    /\ CorrectlyConstructed(
          [wit EXCEPT !.consumed_note.value =
                         wit.created_notes[1].value + wit.created_notes[2].value])
    /\ wit.created_notes[1].value + wit.created_notes[2].value >= 2^VALUE_BITS
    /\ wit.consumed_note.value
          = (wit.created_notes[1].value + wit.created_notes[2].value) % 2^VALUE_BITS

\* C5: a witness whose secret key does not hash to the consumed note's owner
\* is unsatisfied, although the nullifier public input is recomputed from
\* that same secret key.
C5_WrongSecretKeyUnsatisfied ==
    (run.step \in Synthesized
        /\ owner_hash(wit.secret_key) # wit.consumed_note.owner)
        => /\ ~run.sat
           /\ run.instance[2]
                 = poseidon_hash(<<wit.secret_key, wit.consumed_note.nonce>>)

\* C5 witness: an otherwise correct bundle with another secret key was
\* synthesised and is unsatisfied.
C5_Witness ==
    /\ run.step = "synthesized"
    /\ ~run.sat
    /\ owner_hash(wit.secret_key) # wit.consumed_note.owner
    /\ CorrectlyConstructed([wit EXCEPT !.secret_key = Fr(1)])

\* C6: a witness in which the app_tag of either created note differs from the
\* consumed note's app_tag is unsatisfied, whatever its values.
C6_TagMismatchUnsatisfied ==
    (run.step \in Synthesized
        /\ \E i \in 1..2 :
              wit.created_notes[i].app_tag # wit.consumed_note.app_tag)
        => ~run.sat

\* C6 witness: a bundle with conserved value in which only the second created
\* note carries another tag was synthesised and is unsatisfied.
C6_Witness ==
    /\ run.step = "synthesized"
    /\ ~run.sat
    /\ wit.created_notes[1].app_tag = wit.consumed_note.app_tag
    /\ wit.created_notes[2].app_tag # wit.consumed_note.app_tag
    /\ CorrectlyConstructed(
          [wit EXCEPT !.created_notes[2].app_tag = wit.consumed_note.app_tag])

\* C7: for a path of exactly MERKLE_DEPTH levels the root recomputed by the
\* gadget verify_merkle_path equals the root computed natively by prove, by
\* the old_root input closure and by the indexer's verify_proof, so the
\* Merkle-inclusion constraint of a witness assembled by prove holds.
C7_MerkleRootsAgree ==
    (run.step \in Proved /\ Len(wit.merkle_path.siblings) = MERKLE_DEPTH)
        => LET a == Assignment(wit)
               leaf == commitment(wit.consumed_note)
               proved_root == run.inputs.old_root
           IN  /\ GadgetLoop(leaf, a.path_vars, 1) = proved_root
               /\ run.instance[1] = proved_root
               /\ verify_proof(leaf, wit.merkle_path, proved_root)
               /\ MerkleInclusion(a)

\* C7 witness: prove ran on a path that steps both left and right past
\* non-zero siblings.
C7_Witness ==
    /\ run.step = "proved"
    /\ Len(wit.merkle_path.siblings) = MERKLE_DEPTH
    /\ \E i \in 1..MERKLE_DEPTH : wit.merkle_path.indices[i]
    /\ \E i \in 1..MERKLE_DEPTH : ~wit.merkle_path.indices[i]
    /\ \A i \in 1..MERKLE_DEPTH : wit.merkle_path.siblings[i] # Fr(0)

----------------------------------------------------------------------------
(* The indexer's SparseMerkleTree (tree.rs).  The tree is its leaf vector;  *)
(* the zero-hash chain is fixed by new().                                   *)

\* SparseMerkleTree::new: zeros[0] = Fr::ZERO, zeros[i] = hash2 of the
\* previous entry with itself
RECURSIVE zeros(_)
zeros(level) ==
    IF level = 0 THEN Fr(0)
    ELSE hash2(zeros(level - 1), zeros(level - 1))

\* variant: the leaf is put in front of the leaves
SparseMerkleTree_insert_Front(leaves, leaf) ==
    [leaves |-> <<leaf>> \o leaves, idx |-> Len(leaves)]

\* SparseMerkleTree::insert: push the leaf, return its index
SparseMerkleTree_insert(leaves, leaf) ==
    [leaves |-> Append(leaves, leaf), idx |-> Len(leaves)]

\* SparseMerkleTree::next_index
SparseMerkleTree_next_index(leaves) == Len(leaves)

\* SparseMerkleTree::leaves
SparseMerkleTree_leaves(leaves) == leaves

\* the inner while loop of root and of proof: pair the layer's nodes, an odd
\* last node is paired with the level's zero hash
NextLayer(layer, zero) ==
    [j \in 1..((Len(layer) + 1) \div 2) |->
        hash2(layer[2 * j - 1],
              IF 2 * j <= Len(layer) THEN layer[2 * j] ELSE zero)]

\* the loop `for level in 0..MERKLE_DEPTH` of root
RECURSIVE RootLoop(_, _)
RootLoop(layer, level) ==
    IF level = MERKLE_DEPTH THEN layer
    ELSE RootLoop(NextLayer(layer, zeros(level)), level + 1)

\* SparseMerkleTree::root: element 0 of the layer left after MERKLE_DEPTH
\* levels
SparseMerkleTree_root(leaves) ==
    IF leaves = <<>> THEN zeros(MERKLE_DEPTH)
    ELSE RootLoop(leaves, 0)[1]

\* r14_sdk::merkle::empty_root: hash2(h, h) iterated MERKLE_DEPTH times
RECURSIVE EmptyRootLoop(_, _)
EmptyRootLoop(h, n) ==
    IF n = MERKLE_DEPTH THEN h
    ELSE EmptyRootLoop(hash2(h, h), n + 1)

sdk_empty_root == EmptyRootLoop(Fr(0), 0)

\* the zeros vector compute_root precomputes, filled upward from zeros[0]
RECURSIVE ComputeRootZeros(_, _)
ComputeRootZeros(zs, i) ==
    IF i > MERKLE_DEPTH THEN zs
    ELSE ComputeRootZeros(Append(zs, hash2(zs[i], zs[i])), i + 1)

\* the while loop of compute_root; i counts from 0
RECURSIVE ComputeRootWhile(_, _, _, _)
ComputeRootWhile(layer, zero, i, next) ==
    IF ~(i < Len(layer)) THEN next
    ELSE LET left == layer[i + 1]
             right == IF i + 1 < Len(layer) THEN layer[i + 2] ELSE zero
         IN  ComputeRootWhile(layer, zero, i + 2, Append(next, hash2(left, right)))

\* variant of the for loop: a missing right sibling is the zero leaf at every level
RECURSIVE ComputeRootFor_ZeroLeaf(_, _, _)
ComputeRootFor_ZeroLeaf(layer, zs, level) ==
    IF level = MERKLE_DEPTH THEN layer
    ELSE ComputeRootFor_ZeroLeaf(ComputeRootWhile(layer, zs[1], 0, <<>>),
                                 zs, level + 1)

\* variant: compute_root with that loop
compute_root_ZeroLeaf(leaves) ==
    IF leaves = <<>> THEN sdk_empty_root
    ELSE ComputeRootFor_ZeroLeaf(leaves, ComputeRootZeros(<<Fr(0)>>, 1), 0)[1]

\* the loop `for level in 0..MERKLE_DEPTH` of compute_root
RECURSIVE ComputeRootFor(_, _, _)
ComputeRootFor(layer, zs, level) ==
    IF level = MERKLE_DEPTH THEN layer
    ELSE ComputeRootFor(ComputeRootWhile(layer, zs[level + 1], 0, <<>>),
                        zs, level + 1)

\* r14_sdk::merkle::compute_root
compute_root(leaves) ==
    IF leaves = <<>> THEN sdk_empty_root
    ELSE ComputeRootFor(leaves, ComputeRootZeros(<<Fr(0)>>, 1), 0)[1]

\* the loop `for level in 0..MERKLE_DEPTH` of proof; idx counts from 0
RECURSIVE ProofLoop(_, _, _, _)
ProofLoop(layer, idx, level, path) ==
    IF level = MERKLE_DEPTH THEN path
    ELSE LET zero == zeros(level)
             is_right == idx % 2 = 1
             sibling_idx == IF is_right THEN idx - 1 ELSE idx + 1
             sibling == IF sibling_idx < Len(layer)
                        THEN layer[sibling_idx + 1] ELSE zero
         IN  ProofLoop(NextLayer(layer, zero), idx \div 2, level + 1,
                       MerklePath(Append(path.siblings, sibling),
                                  Append(path.indices, is_right)))

\* SparseMerkleTree::proof
SparseMerkleTree_proof(leaves, index) ==
    IF ~(index < Len(leaves))
    THEN [res |-> "index out of bounds", path |-> MerklePath(<<>>, <<>>)]
    ELSE [res |-> "ok",
          path |-> ProofLoop(leaves, index, 0, MerklePath(<<>>, <<>>))]

----------------------------------------------------------------------------
(* Specification SpecTree: leaves are inserted, proofs are requested,       *)
(* verified against the tree's root, and verified again with one sibling    *)
(* replaced                                                                 *)

\* insert checks no capacity: the model lets the tree grow one leaf beyond
\* the 2^MERKLE_DEPTH leaves of a full tree
MaxLeaves == 2^MERKLE_DEPTH + 1

LeafValues == {Fr(0), Fr(1)}
\* the values a sibling is replaced by: leaf values and hashes of two of them
SiblingValues == LeafValues \cup {hash2(a, b) : a \in LeafValues, b \in LeafValues}

NoProbe == [op |-> "none", res |-> "ok", index |-> 0,
            path |-> MerklePath(<<>>, <<>>), level |-> 0, ok |-> FALSE]

InitTree ==
    /\ LedgerIdle
    /\ CircuitIdle
    /\ IndexerIdle
    /\ SdkIdle
    /\ tree = <<>>
    /\ given = <<>>
    /\ probe = NoProbe

Insert ==
    /\ Len(tree) < MaxLeaves
    /\ \E leaf \in LeafValues :
        LET o == SparseMerkleTree_insert(tree, leaf) IN
        /\ tree' = o.leaves
        /\ given' = Append(given, [leaf |-> leaf, idx |-> o.idx,
                                   before |-> Len(SparseMerkleTree_leaves(tree))])
    /\ probe' = NoProbe
    /\ UNCHANGED <<ledgerVars, circuitVars, indexerVars, sdkVars>>

\* tree.proof(index), then verify_proof of the leaf against tree.root()
ProofRequest ==
    /\ LET root == SparseMerkleTree_root(tree) IN
       \E index \in 0..Len(tree) :
        LET o == SparseMerkleTree_proof(tree, index) IN
        probe' = [op |-> "proof", res |-> o.res, index |-> index,
                  path |-> o.path, level |-> 0,
                  ok |-> /\ o.res = "ok"
                         /\ verify_proof(tree[index + 1], o.path, root)]
    /\ UNCHANGED <<tree, given, ledgerVars, circuitVars, indexerVars, sdkVars>>

\* the sibling at one level of the produced path is replaced by a different
\* value, then verify_proof against the same root; the record keeps the
\* produced path and the level
Tamper ==
    /\ probe.op = "proof"
    /\ probe.res = "ok"
    /\ LET root == SparseMerkleTree_root(tree) IN
       \E level \in 1..MERKLE_DEPTH :
        \E value \in SiblingValues \ {probe.path.siblings[level]} :
          LET path == [probe.path EXCEPT !.siblings[level] = value] IN
          probe' = [probe EXCEPT !.op = "tamper",
                                 !.level = level,
                                 !.ok = verify_proof(tree[probe.index + 1], path, root)]
    /\ UNCHANGED <<tree, given, ledgerVars, circuitVars, indexerVars, sdkVars>>

\* compute_root over the leaves the tree holds, compared with tree.root()
ComputeRoot ==
    /\ probe' = [NoProbe EXCEPT !.op = "compute_root",
                                !.index = Len(tree),
                                !.ok = compute_root(SparseMerkleTree_leaves(tree))
                                          = SparseMerkleTree_root(tree)]
    /\ UNCHANGED <<tree, given, ledgerVars, circuitVars, indexerVars, sdkVars>>

NextTree ==
    \/ Insert
    \/ ComputeRoot
    \/ ProofRequest
    \/ Tamper
SpecTree == InitTree /\ [][NextTree]_vars

----------------------------------------------------------------------------
(* Claims about the tree, checked under SpecTree                            *)

\* C8: after inserting any sequence of leaves, for every index below the
\* number of leaves the path produced by proof verifies the leaf against the
\* tree's root.
C8_ProofRoundTrip ==
    (probe.op = "proof" /\ probe.res = "ok") => probe.ok

\* C9: a path produced by proof in which the sibling at one level has been
\* replaced by a different value does not verify against the tree's root.
C9_TamperDetected ==
    probe.op = "tamper" => ~probe.ok

\* C19: the tree is append-only: insert returns the number of leaves present
\* before the call, next_index equals the leaf count, and after any sequence
\* of inserts every inserted leaf is still at the index it was given, with
\* its value.
C19_AppendOnly ==
    /\ \A i \in 1..Len(given) : given[i].idx = given[i].before
    /\ SparseMerkleTree_next_index(tree) = Len(SparseMerkleTree_leaves(tree))
    /\ SparseMerkleTree_next_index(tree) = Len(given)
    /\ \A i \in 1..Len(given) :
          /\ given[i].idx < Len(SparseMerkleTree_leaves(tree))
          /\ SparseMerkleTree_leaves(tree)[given[i].idx + 1] = given[i].leaf
    /\ \A leaf \in LeafValues :
          LET o == SparseMerkleTree_insert(tree, leaf) IN
          /\ o.idx = SparseMerkleTree_next_index(tree)
          /\ SparseMerkleTree_next_index(o.leaves) = o.idx + 1
          /\ \A j \in 1..Len(tree) : o.leaves[j] = tree[j]

\* C19 witness: leaves of different values were inserted, up to one more
\* than a full tree holds, and a proof was then asked for.
C19_Witness ==
    /\ Len(given) = MaxLeaves
    /\ given[1].leaf # given[2].leaf
    /\ given[MaxLeaves].idx = MaxLeaves - 1
    /\ probe.op = "proof"

\* C20: for every leaf sequence compute_root returns what the tree's root
\* returns after those leaves were inserted in order; for the empty sequence
\* both return zeros[MERKLE_DEPTH], which is empty_root().
C20_ComputeRootAgrees ==
    /\ compute_root(SparseMerkleTree_leaves(tree)) = SparseMerkleTree_root(tree)
    /\ probe.op = "compute_root" => probe.ok
    /\ sdk_empty_root = zeros(MERKLE_DEPTH)
    /\ compute_root(<<>>) = sdk_empty_root
    /\ SparseMerkleTree_root(<<>>) = sdk_empty_root
    /\ ComputeRootZeros(<<Fr(0)>>, 1) = [l \in 1..(MERKLE_DEPTH + 1) |-> zeros(l - 1)]

\* C20 witness: compute_root was applied to three leaves, not all equal, so
\* that the last node of the first layer had no right sibling.
C20_Witness ==
    /\ probe.op = "compute_root"
    /\ probe.index = 3
    /\ Len(tree) = 3
    /\ tree[1] # tree[3]
    /\ probe.ok

----------------------------------------------------------------------------
(* The indexer: the ledger's events as the RPC serves them, the database,   *)
(* the poller, the HTTP handlers                                            *)

\* ledgers closed while the indexer is watched
MaxLedger == 2
\* events the contract emits in that time
MaxEvents == 2
\* getEvents pagination limit (the poller asks for 100)
PAGE_LIMIT == 2
\* failed database calls and restarts of the indexer process, together
MaxFaults == 1
\* leaves the indexer's tree is watched up to (events can be indexed again
\* and again)
MaxIndexed == 3

\* The commitments of the event with id `id`; every event carries its own.
\* R14Transfer publishes (nullifier, cm_0, cm_1) for a transfer and (cm,)
\* for a deposit.
EventCms(kind, id) ==
    IF kind = "transfer"
    THEN <<serialize_fr(Fr(2 * id)), serialize_fr(Fr(2 * id + 1))>>
    ELSE <<serialize_fr(Fr(2 * id))>>

\* the ids of a set, in increasing order
RECURSIVE SortedIds(_)
SortedIds(ids) ==
    IF ids = {} THEN <<>>
    ELSE LET m == CHOOSE i \in ids : \A j \in ids : i <= j
         IN  <<m>> \o SortedIds(ids \ {m})

\* The RPC's getEvents as poll_events and poll_deposit_events use it: the
\* events of one topic after the cursor, or from start_ledger on when no
\* cursor is sent, at most PAGE_LIMIT of them; the cursor handed back is the
\* id of the last event returned.  An event's id is its position on the
\* ledger.
rpc_getEvents(c, topic, start_ledger, cursor) ==
    LET evs == c.events
        ids == {i \in 1..Len(evs) :
                   /\ evs[i].kind = topic
                   /\ IF cursor # None THEN i > cursor[1]
                      ELSE evs[i].ledger >= start_ledger}
        page == {i \in ids : Cardinality({j \in ids : j < i}) < PAGE_LIMIT}
    IN  [events |-> SortedIds(page),
         latest_ledger |-> c.latest,
         cursor |-> IF page = {} THEN None
                    ELSE Some(CHOOSE i \in page : \A j \in page : j <= i)]

\* rpc::poll_events
poll_events(c, start_ledger, cursor) ==
    rpc_getEvents(c, "transfer", start_ledger, cursor)

\* rpc::poll_deposit_events
poll_deposit_events(c, start_ledger, cursor) ==
    rpc_getEvents(c, "deposit", start_ledger, cursor)

\* db::fr_to_bytes: the canonical big-endian bytes
db_fr_to_bytes(f) == Bytes32(f, TRUE)

\* db::fr_from_bytes: from_be_bytes_mod_order
db_fr_from_bytes(b) == b.fr

\* Db::open on a new file: no leaves, no cursor row
DbEmpty == [leaves |-> <<>>, cursor |-> None]

\* Db::insert_leaf: idx is the primary key, a second row under the same idx
\* is refused; io = FALSE is a failure of the database itself
Db_insert_leaf(d, idx, cm, block_height, io) ==
    IF ~io \/ idx \in DOMAIN d.leaves
    THEN [res |-> "err", db |-> d]
    ELSE [res |-> "ok",
          db |-> [d EXCEPT !.leaves =
                     [i \in (DOMAIN d.leaves) \cup {idx} |->
                         IF i = idx
                         THEN [commitment |-> db_fr_to_bytes(cm),
                               block_height |-> block_height]
                         ELSE d.leaves[i]]]]

\* Db::load_leaves: the commitments ordered by idx
RECURSIVE LoadLoop(_, _)
LoadLoop(rows, ids) ==
    IF ids = <<>> THEN <<>>
    ELSE <<db_fr_from_bytes(rows[Head(ids)].commitment)>> \o LoadLoop(rows, Tail(ids))

\* variant: the rows are read in decreasing order of idx
Db_load_leaves_Desc(d) ==
    LET up == LoadLoop(d.leaves, SortedIds(DOMAIN d.leaves))
    IN  [j \in 1..Len(up) |-> up[Len(up) + 1 - j]]

Db_load_leaves(d) == LoadLoop(d.leaves, SortedIds(DOMAIN d.leaves))

\* every leaf of the tree is in the database under the index insert gave it
Persisted(d, leaves) ==
    /\ DOMAIN d.leaves = 0..(Len(leaves) - 1)
    /\ \A j \in DOMAIN d.leaves :
          d.leaves[j].commitment = db_fr_to_bytes(leaves[j + 1])

\* Db::save_cursor: the single row is inserted or replaced
Db_save_cursor(d, last_ledger, cursor, io) ==
    IF ~io THEN [res |-> "err", db |-> d]
    ELSE [res |-> "ok", db |-> [d EXCEPT !.cursor = Some(<<last_ledger, cursor>>)]]

\* Db::load_cursor
Db_load_cursor(d) == d.cursor

\* main, step 2: the tree is rebuilt from the persisted leaves
RECURSIVE RebuildLoop(_, _)
RebuildLoop(leaves, loaded) ==
    IF loaded = <<>> THEN leaves
    ELSE RebuildLoop(SparseMerkleTree_insert(leaves, Head(loaded)).leaves, Tail(loaded))

\* main, steps 1 to 4: the process as it stands when the poller is spawned
Boot(d) ==
    [pc |-> "start",
     initial |-> Db_load_cursor(d),
     start_ledger |-> 0, cursor |-> None, deposit_cursor |-> None,
     result |-> [latest_ledger |-> 0, cursor |-> None],
     dep_cursor |-> None,
     batch |-> <<>>,
     tree |-> RebuildLoop(<<>>, Db_load_leaves(d)),
     lock |-> "free"]

\* api::fr_to_hex: 0x and the 32 big-endian bytes
api_fr_to_hex(f) == [prefix |-> TRUE, bytes |-> Bytes32(f, TRUE)]

\* variant: the bounds check lets the leaf count itself through
api_get_proof_OffByOne(leaves, index) ==
    IF index > SparseMerkleTree_next_index(leaves)
    THEN [status |-> 404, siblings |-> <<>>, indices |-> <<>>]
    ELSE LET o == SparseMerkleTree_proof(leaves, index) IN
         IF o.res # "ok"
         THEN [status |-> 500, siblings |-> <<>>, indices |-> <<>>]
         ELSE [status |-> 200,
               siblings |-> [l \in 1..Len(o.path.siblings) |->
                                api_fr_to_hex(o.path.siblings[l])],
               indices |-> o.path.indices]

\* api::get_proof, run under the read lock; a panic of the handler (the
\* tree's assertion) would be status 500
api_get_proof(leaves, index) ==
    IF index >= SparseMerkleTree_next_index(leaves)
    THEN [status |-> 404, siblings |-> <<>>, indices |-> <<>>]
    ELSE LET o == SparseMerkleTree_proof(leaves, index) IN
         IF o.res # "ok"
         THEN [status |-> 500, siblings |-> <<>>, indices |-> <<>>]
         ELSE [status |-> 200,
               siblings |-> [l \in 1..Len(o.path.siblings) |->
                                api_fr_to_hex(o.path.siblings[l])],
               indices |-> o.path.indices]

\* api::get_root
api_get_root(leaves) ==
    [status |-> 200, root |-> api_fr_to_hex(SparseMerkleTree_root(leaves))]

\* Field elements as hex strings (r14_sdk::wallet)

\* A field element takes 32 bytes, read as NUM_LIMBS limbs of 8 bytes.  The
\* model keeps the number of limbs; a limb has the VALUE_BITS bits
\* FieldModulus is proportioned for, one byte per bit, so a byte is a digit
\* to the base BYTE_BASE.
NUM_LIMBS == 4
LIMB_BYTES == VALUE_BITS
FR_BYTES == NUM_LIMBS * LIMB_BYTES
BYTE_BASE == 2

\* the field elements that are embedded integers
FieldElements == {Fr(n) : n \in 0..(FieldModulus - 1)}

\* byte strings of up to len bytes
RECURSIVE ByteStrings(_)
ByteStrings(len) ==
    IF len = 0 THEN {<<>>}
    ELSE ByteStrings(len - 1)
            \cup {Append(bs, b) : bs \in {x \in ByteStrings(len - 1) : Len(x) = len - 1},
                                  b \in 0..(BYTE_BASE - 1)}

\* A string handed to hex_to_fr: with or without the 0x prefix, and either
\* the hex digits of a byte string or something hex::decode refuses.
HexStrings ==
    [prefix : BOOLEAN, valid : {TRUE}, bytes : ByteStrings(FR_BYTES + 1)]
        \cup [prefix : BOOLEAN, valid : {FALSE}, bytes : {<<>>}]

\* BigInteger::to_bytes_be: len bytes, most significant first
RECURSIVE to_bytes_be(_, _)
to_bytes_be(n, len) ==
    IF len = 0 THEN <<>>
    ELSE Append(to_bytes_be(n \div BYTE_BASE, len - 1), n % BYTE_BASE)

\* u64::from_be_bytes
RECURSIVE from_be_bytes(_)
from_be_bytes(bs) ==
    IF bs = <<>> THEN 0
    ELSE from_be_bytes(SubSeq(bs, 1, Len(bs) - 1)) * BYTE_BASE + bs[Len(bs)]

\* wallet::fr_to_hex: 0x, then the hex digits of the big-endian bytes
fr_to_hex(f) == [prefix |-> TRUE, valid |-> TRUE, bytes |-> to_bytes_be(f[1], FR_BYTES)]

\* fr_to_raw_hex: the same digits without the prefix
fr_to_raw_hex(f) == [prefix |-> FALSE, valid |-> TRUE, bytes |-> to_bytes_be(f[1], FR_BYTES)]

\* str::strip_prefix("0x").unwrap_or(s)
strip_0x(s) == [s EXCEPT !.prefix = FALSE]

\* the number four little-endian limbs stand for
RECURSIVE LimbsValue(_, _)
LimbsValue(limbs, i) ==
    IF i = NUM_LIMBS THEN 0
    ELSE limbs[i] + (BYTE_BASE^LIMB_BYTES) * LimbsValue(limbs, i + 1)

\* variant: the limbs are filled from the front of the padded bytes
hex_to_fr_FrontLimbs(s) ==
    IF ~strip_0x(s).valid THEN [res |-> "invalid hex", fr |-> Fr(0)]
    ELSE LET bytes == strip_0x(s).bytes
             n == IF Len(bytes) < FR_BYTES THEN Len(bytes) ELSE FR_BYTES
             padded == [j \in 1..(FR_BYTES - n) |-> 0] \o SubSeq(bytes, 1, n)
             limbs == [i \in 0..(NUM_LIMBS - 1) |->
                          from_be_bytes(SubSeq(padded, i * LIMB_BYTES + 1,
                                                       (i + 1) * LIMB_BYTES))]
             value == LimbsValue(limbs, 0)
         IN  IF value >= FieldModulus
             THEN [res |-> "value not in field", fr |-> Fr(0)]
             ELSE [res |-> "ok", fr |-> Fr(value)]

\* wallet::hex_to_fr: the prefix is dropped, the digits are decoded, the
\* first min(len, 32) bytes are right-aligned in 32 bytes, limb i is the
\* i-th chunk of 8 bytes from the right, and Fr::from_bigint refuses a
\* number that is not below the modulus
hex_to_fr(s) ==
    IF ~strip_0x(s).valid THEN [res |-> "invalid hex", fr |-> Fr(0)]
    ELSE LET bytes == strip_0x(s).bytes
             n == IF Len(bytes) < FR_BYTES THEN Len(bytes) ELSE FR_BYTES
             padded == [j \in 1..(FR_BYTES - n) |-> 0] \o SubSeq(bytes, 1, n)
             limbs == [i \in 0..(NUM_LIMBS - 1) |->
                          from_be_bytes(SubSeq(padded,
                                               FR_BYTES - (i + 1) * LIMB_BYTES + 1,
                                               FR_BYTES - i * LIMB_BYTES))]
             value == LimbsValue(limbs, 0)
         IN  IF value >= FieldModulus
             THEN [res |-> "value not in field", fr |-> Fr(0)]
             ELSE [res |-> "ok", fr |-> Fr(value)]

\* api::router: the paths that have a handler
Routes == {"/v1/health", "/v1/root", "/v1/proof/{index}", "/v1/leaf/{commitment}"}

\* axum's Router for a request without path parameters: the handler's JSON
\* body when the path has a route, and 404 with an empty body when it has
\* none.  No handler answers with a "leaves" array.
api_router(path) ==
    IF path \in Routes
    THEN [status |-> 200, json |-> TRUE, leaves |-> None]
    ELSE [status |-> 404, json |-> FALSE, leaves |-> None]

\* the commitments a client is about to submit
NewCommitments == {<<Fr(1)>>, <<Fr(1), Fr(3)>>}

\* Vec<Result<Fr>> collected into Result<Vec<Fr>>
RECURSIVE CollectLeaves(_)
CollectLeaves(hexes) ==
    IF hexes = <<>> THEN [res |-> "ok", leaves |-> <<>>]
    ELSE LET h == hex_to_fr(Head(hexes))
             t == CollectLeaves(Tail(hexes))
         IN  IF h.res # "ok" THEN [res |-> h.res, leaves |-> <<>>]
             ELSE IF t.res # "ok" THEN t
             ELSE [res |-> "ok", leaves |-> <<h.fr>> \o t.leaves]

\* merkle::compute_new_root: GET {indexer}/v1/leaves, the body parsed as
\* JSON, its "leaves" array decoded with hex_to_fr, the new commitments
\* pushed, compute_root of the whole, as raw hex
compute_new_root(resp, new_commitments) ==
    IF ~resp.json
    THEN [res |-> "failed to fetch leaves from indexer", root |-> fr_to_raw_hex(Fr(0))]
    ELSE IF resp.leaves = None
    THEN [res |-> "invalid leaves response", root |-> fr_to_raw_hex(Fr(0))]
    ELSE LET got == CollectLeaves(resp.leaves[1]) IN
         IF got.res # "ok"
         THEN [res |-> got.res, root |-> fr_to_raw_hex(Fr(0))]
         ELSE [res |-> "ok",
               root |-> fr_to_raw_hex(compute_root(got.leaves \o new_commitments))]

\* What is kept of the indexer's past: the number of faults so far, and,
\* from a restart until the poller starts, whether every leaf of the tree
\* was in the database under its index (intact) and whether the rebuilt tree
\* had the leaf count and the root of the tree before (sameCount, sameRoot).
NoBoot == [op |-> "none", intact |-> FALSE, sameCount |-> FALSE, sameRoot |-> FALSE]
\* What is kept of the latest HTTP exchange: the route, the status, for a
\* proof request whether the index was below the leaf count, and the length
\* of the path in the answer; for compute_new_root what the client got
\* (client) and whether that is the root of the tree with the new
\* commitments appended (agrees); for a handler that reads the tree whether
\* it ran while the poller was inside one of its insert loops (inLoop).
NoHttp == [route |-> "none", status |-> 0, inBounds |-> FALSE, depth |-> 0,
           client |-> "none", agrees |-> FALSE, inLoop |-> FALSE]

\* variant: the write guard is taken and dropped around every single insert
WriteGuard_PerLeaf(done) == "free"

\* `let mut s = state.write().await` before the `for` loop: the guard lives
\* to the end of the `if` block, so the lock is released after the last
\* insert of the poll result and not before
WriteGuard(done) == IF done THEN "free" ELSE "write"

InitIndexer ==
    /\ LedgerIdle
    /\ CircuitIdle
    /\ TreeIdle
    /\ SdkIdle
    /\ chain = [events |-> <<>>, latest |-> 0]
    /\ db = DbEmpty
    /\ ix = Boot(DbEmpty)
    /\ http = NoHttp
    /\ seen = [faults |-> 0, boot |-> NoBoot]

\* the database answers, or fails while the budget of faults lasts
IoOutcomes == IF seen.faults < MaxFaults THEN BOOLEAN ELSE {TRUE}
CountIo(io) == IF io THEN seen.faults ELSE seen.faults + 1

\* A ledger closes, with no event of R14Transfer in it or with one.
LedgerClose ==
    /\ chain.latest < MaxLedger
    /\ \E kinds \in {<<>>} \cup {<<a>> : a \in {"deposit", "transfer"}} :
        /\ Len(chain.events) + Len(kinds) <= MaxEvents
        /\ chain' = [events |-> chain.events \o
                        [j \in 1..Len(kinds) |->
                            [kind |-> kinds[j],
                             cms |-> EventCms(kinds[j], Len(chain.events) + j),
                             ledger |-> chain.latest + 1]],
                     latest |-> chain.latest + 1]
    /\ UNCHANGED <<ix, db, http, seen, ledgerVars, circuitVars, treeVars, sdkVars>>

\* poller_loop up to `loop`: the persisted cursor, or getLatestLedger, whose
\* failure ends the function
PollerStart ==
    /\ ix.pc = "start"
    /\ \/ /\ ix.initial # None
          /\ ix' = [ix EXCEPT !.pc = "sleep",
                              !.initial = None,
                              !.start_ledger = ix.initial[1][1],
                              !.cursor = ix.initial[1][2]]
       \/ /\ ix.initial = None
          /\ \E rpc \in BOOLEAN :
              ix' = IF rpc
                    THEN [ix EXCEPT !.pc = "sleep",
                                    !.start_ledger = chain.latest,
                                    !.cursor = None]
                    ELSE [ix EXCEPT !.pc = "returned"]
    /\ seen' = [seen EXCEPT !.boot = NoBoot]
    /\ UNCHANGED <<chain, db, http, ledgerVars, circuitVars, treeVars, sdkVars>>

\* the commitments of the events of a poll result, in the order of the
\* insert loop
RECURSIVE BatchOf(_, _)
BatchOf(c, ids) ==
    IF ids = <<>> THEN <<>>
    ELSE LET ev == c.events[Head(ids)] IN
         [k \in 1..Len(ev.cms) |->
             [ev |-> Head(ids), k |-> k,
              cm |-> FrFromBytes(ev.cms[k]), ledger |-> ev.ledger]]
         \o BatchOf(c, Tail(ids))

\* the end of a cycle: the cursors move on and the transfer cursor is saved
FinishCycle(i, d, deposits_polled, io) ==
    LET start_ledger == i.result.latest_ledger
        cursor == i.result.cursor
    IN  [ix |-> [i EXCEPT !.pc = "sleep",
                          !.deposit_cursor = IF deposits_polled THEN i.dep_cursor
                                             ELSE i.deposit_cursor,
                          !.start_ledger = start_ledger,
                          !.cursor = cursor,
                          !.result = [latest_ledger |-> 0, cursor |-> None],
                          !.dep_cursor = None,
                          !.lock = "free",
                          !.batch = <<>>],
         db |-> Db_save_cursor(d, start_ledger, cursor, io).db]

\* poller_loop: the sleep, then the transfer-event poll; a failure is logged
\* and the loop continues
PollTransfers ==
    /\ ix.pc = "sleep"
    /\ \E rpc \in BOOLEAN :
        IF ~rpc THEN ix' = ix
        ELSE LET result == poll_events(chain, ix.start_ledger, ix.cursor) IN
             ix' = [ix EXCEPT
                       !.result = [latest_ledger |-> result.latest_ledger,
                                   cursor |-> result.cursor],
                       !.batch = BatchOf(chain, result.events),
                       !.lock = IF result.events # <<>> THEN "write" ELSE "free",
                       !.pc = IF result.events # <<>> THEN "insert_transfers"
                              ELSE "poll_deposits"]
    /\ UNCHANGED <<chain, db, http, seen, ledgerVars, circuitVars, treeVars, sdkVars>>

\* one turn of an insert loop, under the write lock: tree.insert, then
\* db.insert_leaf at the returned index, whose failure is logged
InsertLeaf ==
    /\ ix.pc \in {"insert_transfers", "insert_deposits"}
    /\ ix.batch # <<>>
    /\ Len(ix.tree) < MaxIndexed
    /\ \E io \in IoOutcomes, ioCursor \in IoOutcomes :
        LET h == Head(ix.batch)
            o == SparseMerkleTree_insert(ix.tree, h.cm)
            d == Db_insert_leaf(db, o.idx, h.cm, h.ledger, io).db
            done == Tail(ix.batch) = <<>>
            i == [ix EXCEPT !.tree = o.leaves, !.batch = Tail(ix.batch),
                            !.lock = WriteGuard(done)]
            closing == done /\ ix.pc = "insert_deposits"
        IN  /\ (~closing => ioCursor)
            /\ (~io => ioCursor)
            /\ IF closing
               THEN /\ ix' = FinishCycle(i, d, TRUE, ioCursor).ix
                    /\ db' = FinishCycle(i, d, TRUE, ioCursor).db
               ELSE /\ ix' = IF done
                             THEN [i EXCEPT !.lock = "free", !.pc = "poll_deposits"]
                             ELSE i
                    /\ db' = d
            /\ seen' = [seen EXCEPT !.faults = CountIo(io /\ ioCursor)]
    /\ UNCHANGED <<chain, http, ledgerVars, circuitVars, treeVars, sdkVars>>

\* poller_loop: the deposit-event poll; on a failure the transfer cursor is
\* still moved on and saved, and the loop continues
PollDeposits ==
    /\ ix.pc = "poll_deposits"
    /\ \E rpc \in BOOLEAN, io \in IoOutcomes :
        IF ~rpc
        THEN /\ ix' = FinishCycle(ix, db, FALSE, io).ix
             /\ db' = FinishCycle(ix, db, FALSE, io).db
             /\ seen' = [seen EXCEPT !.faults = CountIo(io)]
        ELSE LET dep_result == poll_deposit_events(chain, ix.start_ledger,
                                                   ix.deposit_cursor)
                 i == [ix EXCEPT !.dep_cursor = dep_result.cursor,
                                 !.batch = BatchOf(chain, dep_result.events)]
             IN  IF dep_result.events # <<>>
                 THEN /\ io
                      /\ ix' = [i EXCEPT !.lock = "write", !.pc = "insert_deposits"]
                      /\ UNCHANGED <<db, seen>>
                 ELSE /\ ix' = FinishCycle(i, db, TRUE, io).ix
                      /\ db' = FinishCycle(i, db, TRUE, io).db
                      /\ seen' = [seen EXCEPT !.faults = CountIo(io)]
    /\ UNCHANGED <<chain, http, ledgerVars, circuitVars, treeVars, sdkVars>>

\* The process is stopped at any point and started again on the same
\* database file.
Restart ==
    /\ seen.faults < MaxFaults
    /\ ix' = Boot(db)
    /\ seen' = [seen EXCEPT
                   !.faults = @ + 1,
                   !.boot = [op |-> "restart",
                             intact |-> Persisted(db, ix.tree),
                             sameCount |-> SparseMerkleTree_next_index(Boot(db).tree)
                                              = SparseMerkleTree_next_index(ix.tree),
                             sameRoot |-> SparseMerkleTree_root(Boot(db).tree)
                                             = SparseMerkleTree_root(ix.tree)]]
    /\ http' = NoHttp
    /\ UNCHANGED <<chain, db, ledgerVars, circuitVars, treeVars, sdkVars>>

\* GET /v1/proof/{index}; a handler takes the read lock, which it gets while
\* no writer holds the lock
GetProof ==
    /\ ix.lock = "free"
    /\ \E index \in 0..(Len(ix.tree) + 1) :
        http' = [route |-> "/v1/proof/{index}",
                 status |-> api_get_proof(ix.tree, index).status,
                 inBounds |-> index < Len(ix.tree),
                 depth |-> Len(api_get_proof(ix.tree, index).siblings),
                 client |-> "none", agrees |-> FALSE,
                 inLoop |-> ix.pc \in {"insert_transfers", "insert_deposits"}]
    /\ UNCHANGED <<chain, ix, db, seen, ledgerVars, circuitVars, treeVars, sdkVars>>

\* a client calls compute_new_root against the running indexer
ComputeNewRoot ==
    /\ ix.lock = "free"
    /\ \E new_commitments \in NewCommitments :
        LET resp == api_router("/v1/leaves")
            got == compute_new_root(resp, new_commitments)
        IN  http' = [route |-> "/v1/leaves",
                     status |-> resp.status,
                     inBounds |-> FALSE,
                     depth |-> 0,
                     client |-> got.res,
                     agrees |-> /\ got.res = "ok"
                                /\ hex_to_fr(got.root).res = "ok"
                                /\ hex_to_fr(got.root).fr
                                      = SparseMerkleTree_root(
                                            RebuildLoop(ix.tree, new_commitments)),
                     inLoop |-> FALSE]
    /\ UNCHANGED <<chain, ix, db, seen, ledgerVars, circuitVars, treeVars, sdkVars>>

\* GET /v1/root, under the read lock
GetRoot ==
    /\ ix.lock = "free"
    /\ http' = [route |-> "/v1/root",
                status |-> api_get_root(ix.tree).status,
                inBounds |-> FALSE,
                depth |-> 0,
                client |-> "none", agrees |-> FALSE,
                inLoop |-> ix.pc \in {"insert_transfers", "insert_deposits"}]
    /\ UNCHANGED <<chain, ix, db, seen, ledgerVars, circuitVars, treeVars, sdkVars>>

NextIndexer ==
    \/ LedgerClose
    \/ PollerStart
    \/ PollTransfers
    \/ InsertLeaf
    \/ PollDeposits
    \/ Restart
    \/ GetProof
    \/ ComputeNewRoot
SpecIndexer == InitIndexer /\ [][NextIndexer]_vars

----------------------------------------------------------------------------
(* Claims about the indexer, checked under SpecIndexer                      *)

\* C21: when every leaf inserted into the tree was persisted with
\* Db::insert_leaf at the index insert returned, reopening the database,
\* loading the leaves ordered by idx and inserting them into a fresh tree
\* gives the same leaf count and the same root.
C21_RestartPreservesTree ==
    /\ (seen.boot.op = "restart" /\ seen.boot.intact)
          => seen.boot.sameCount /\ seen.boot.sameRoot
    /\ Persisted(db, ix.tree)
          => /\ SparseMerkleTree_next_index(Boot(db).tree)
                   = SparseMerkleTree_next_index(ix.tree)
             /\ SparseMerkleTree_root(Boot(db).tree) = SparseMerkleTree_root(ix.tree)
             /\ Db_load_leaves(db) = ix.tree

\* C21 witness: the process was restarted on a database holding every leaf
\* of a tree of two leaves or more, and the rebuilt tree has them.
C21_Witness ==
    /\ seen.boot.op = "restart"
    /\ seen.boot.intact
    /\ seen.boot.sameRoot
    /\ ix.pc = "start"
    /\ Len(ix.tree) >= 2
    /\ ix.tree[1] # ix.tree[2]

\* the event a leaf of the indexer's tree came with (see EventCms)
EventOf(leaf) == leaf[1] \div 2

\* C22: the indexer's leaf order is the ledger's order: when event e1
\* precedes event e2 on the ledger, every commitment of e1 has a smaller leaf
\* index in the indexer's tree than every commitment of e2.  (Stated for
\* trees in which no commitment occurs twice.)
C22_LedgerOrder ==
    (\A p \in 1..Len(ix.tree), q \in 1..Len(ix.tree) :
        ix.tree[p] = ix.tree[q] => p = q)
    => \A p \in 1..Len(ix.tree), q \in 1..Len(ix.tree) :
          EventOf(ix.tree[p]) < EventOf(ix.tree[q]) => p < q

\* C23: the poller survives every failed RPC call: after a failure of
\* getLatestLedger at start-up, of the transfer-event poll or of the
\* deposit-event poll it polls again later; poller_loop never returns.
C23_PollerNeverStops == ix.pc # "returned"

\* C24: GET /v1/proof/{index} answers 404 for every index at or beyond the
\* leaf count and a path of MERKLE_DEPTH siblings otherwise; the tree's
\* "index out of bounds" assertion is never reached, whatever the poller has
\* inserted.
C24_ProofBounds ==
    /\ http.route = "/v1/proof/{index}"
          => IF http.inBounds
             THEN http.status = 200 /\ http.depth = MERKLE_DEPTH
             ELSE http.status = 404
    /\ \A index \in 0..(Len(ix.tree) + 1) :
          LET r == api_get_proof(ix.tree, index) IN
          IF index >= Len(ix.tree)
          THEN r.status = 404
          ELSE /\ r.status = 200
               /\ Len(r.siblings) = MERKLE_DEPTH
               /\ Len(r.indices) = MERKLE_DEPTH

\* C24 witness: between the two insert loops of a poll cycle, with leaves in
\* the tree, a proof was asked for beyond the leaf count and answered 404.
C24_Witness ==
    /\ http.route = "/v1/proof/{index}"
    /\ ~http.inBounds
    /\ http.status = 404
    /\ Len(ix.tree) >= 2
    /\ ix.pc = "poll_deposits"

\* C35: no event is indexed twice: across poll cycles and across a restart
\* that resumes from the persisted (last_ledger, last_cursor) while the
\* deposit cursor starts empty again, each deposit or transfer event
\* contributes its commitments to the tree and to the database exactly once.
\* Every event carries commitments of its own (EventCms), so no leaf value
\* is in the tree twice and no commitment is in two rows of the database.
C35_NoEventTwice ==
    /\ \A p \in 1..Len(ix.tree), q \in 1..Len(ix.tree) :
          ix.tree[p] = ix.tree[q] => p = q
    /\ \A i \in DOMAIN db.leaves, j \in DOMAIN db.leaves :
          db.leaves[i].commitment = db.leaves[j].commitment => i = j

\* C36: the indexer's tree and its database stay in step: after every poll
\* cycle the rows of the leaves table ordered by idx are exactly the tree's
\* leaf sequence, also when a Db::insert_leaf call returned an error, so
\* that a restart rebuilds the tree the HTTP API was serving.
C36_TreeAndDbInStep ==
    ix.pc = "sleep"
        => /\ Db_load_leaves(db) = ix.tree
           /\ DOMAIN db.leaves = 0 .. (Len(ix.tree) - 1)
           /\ Boot(db).tree = ix.tree

----------------------------------------------------------------------------
(* Specification SpecPoller: the poller after it started from ledger 0 on   *)
(* an empty database, with no restart of the process                        *)

InitPoller ==
    /\ LedgerIdle
    /\ CircuitIdle
    /\ TreeIdle
    /\ SdkIdle
    /\ chain = [events |-> <<>>, latest |-> 0]
    /\ db = DbEmpty
    /\ ix = [Boot(DbEmpty) EXCEPT !.pc = "sleep", !.initial = None]
    /\ http = NoHttp
    /\ seen = [faults |-> 0, boot |-> NoBoot]

NextPoller ==
    \/ LedgerClose
    \/ PollTransfers
    \/ InsertLeaf
    \/ PollDeposits
    \/ GetProof
    \/ GetRoot
SpecPoller == InitPoller /\ [][NextPoller]_vars

\* the leaves of a tree, as a set
LeafSet(leaves) == {leaves[p] : p \in 1..Len(leaves)}

\* C34: no deposit is lost by the indexer: every deposit event emitted at or
\* after the ledger the indexer started from is eventually inserted into the
\* tree, also when a deposit poll fails in a cycle whose transfer poll
\* succeeded.  Between two cycles a deposit that is not in the tree has to be
\* within the reach of the next deposit poll, after deposit_cursor or, with
\* no cursor, at or after start_ledger: neither of the two ever moves back,
\* so a deposit behind them is never asked for again.
C34_NoDepositLost ==
    ix.pc = "sleep"
        => \A id \in 1..Len(chain.events) :
              chain.events[id].kind = "deposit"
              => \/ FrFromBytes(chain.events[id].cms[1]) \in LeafSet(ix.tree)
                 \/ IF ix.deposit_cursor # None
                    THEN id > ix.deposit_cursor[1]
                    ELSE chain.events[id].ledger >= ix.start_ledger

\* C37: HTTP readers never observe a partly applied poll batch: the poller
\* inserts all commitments of one poll result (both cm_0 and cm_1 of every
\* transfer event) while holding the write lock, so any /v1/root or
\* /v1/proof response reflects a tree containing either none or all leaves
\* of that batch.  No handler runs inside an insert loop, and whenever the
\* lock is free no leaf of a poll result is waiting to be inserted.
C37_NoPartialBatch ==
    /\ http.route \in {"/v1/root", "/v1/proof/{index}"} => ~http.inLoop
    /\ ix.lock = "free" => ix.batch = <<>>
    /\ ix.pc \in {"insert_transfers", "insert_deposits"} => ix.lock = "write"

\* C37 witness: the root was asked for between the two insert loops of a
\* cycle, after a transfer event's two commitments had been inserted.
C37_Witness ==
    /\ http.route = "/v1/root"
    /\ http.status = 200
    /\ ~http.inLoop
    /\ ix.pc = "poll_deposits"
    /\ Len(ix.tree) = 2
    /\ EventOf(ix.tree[1]) = EventOf(ix.tree[2])

----------------------------------------------------------------------------
(* Hex strings, checked under SpecHex                                       *)

InitHex ==
    /\ LedgerIdle
    /\ CircuitIdle
    /\ TreeIdle
    /\ IndexerIdle
    /\ cli = <<>>
    /\ net = <<>>
    /\ \/ \E s \in HexStrings :
            hx = [op |-> "string", s |-> s, f |-> Fr(0), res |-> "none",
                  bare |-> "none", bareFr |-> Fr(0)]
       \/ \E f \in FieldElements :
            hx = [op |-> "element", s |-> fr_to_hex(Fr(0)), f |-> f, res |-> "none",
                  bare |-> "none", bareFr |-> Fr(0)]

\* hex_to_fr of a string
HexToFr ==
    /\ hx.op = "string"
    /\ hx' = [hx EXCEPT !.op = "hex_to_fr",
                        !.res = hex_to_fr(hx.s).res,
                        !.f = hex_to_fr(hx.s).fr]
    /\ UNCHANGED <<cli, net, ledgerVars, circuitVars, treeVars, indexerVars>>

\* fr_to_hex of a field element, then hex_to_fr of the string, and of the
\* string without its prefix
RoundTrip ==
    /\ hx.op = "element"
    /\ LET s == fr_to_hex(hx.f) IN
       hx' = [op |-> "roundtrip", s |-> s, f |-> hx.f,
              res |-> IF hex_to_fr(s).res = "ok" /\ hex_to_fr(s).fr = hx.f
                      THEN "same"
                      ELSE IF hex_to_fr(s).res = "ok" THEN "other"
                      ELSE hex_to_fr(s).res,
              bare |-> hex_to_fr([s EXCEPT !.prefix = FALSE]).res,
              bareFr |-> hex_to_fr([s EXCEPT !.prefix = FALSE]).fr]
    /\ UNCHANGED <<cli, net, ledgerVars, circuitVars, treeVars, indexerVars>>

NextHex ==
    \/ HexToFr
    \/ RoundTrip
SpecHex == InitHex /\ [][NextHex]_vars

\* C28: for every field element f, hex_to_fr(fr_to_hex(f)) = f, where
\* fr_to_hex writes the 32 big-endian bytes after a 0x prefix; the result is
\* the same with and without the prefix.
C28_HexRoundTrip ==
    /\ hx.op = "roundtrip"
          => /\ hx.res = "same"
             /\ hx.bare = "ok"
             /\ hx.bareFr = hx.f
             /\ hx.s.prefix
             /\ Len(hx.s.bytes) = FR_BYTES
             /\ from_be_bytes(hx.s.bytes) = hx.f[1]
    /\ hx.op = "hex_to_fr"
          => hex_to_fr(hx.s) = hex_to_fr([hx.s EXCEPT !.prefix = ~hx.s.prefix])

\* C28 witness: the largest field element, which takes more than one limb
\* and whose bytes differ, went through fr_to_hex and hex_to_fr.
C28_Witness ==
    /\ hx.op = "roundtrip"
    /\ hx.f = Fr(FieldModulus - 1)
    /\ hx.res = "same"
    /\ hx.f[1] >= BYTE_BASE^LIMB_BYTES
    /\ \E i, j \in 1..FR_BYTES : hx.s.bytes[i] # hx.s.bytes[j]

\* C29: hex_to_fr of a string that decodes to more than 32 bytes fails with
\* an error; it never returns a field element for an over-long encoding.
C29_OverlongRejected ==
    (hx.op = "hex_to_fr" /\ hx.s.valid /\ Len(hx.s.bytes) > FR_BYTES)
        => hx.res # "ok"

\* C25: the indexer serves GET /v1/leaves with every leaf in index order, so
\* compute_new_root(indexer, new commitments) succeeds and returns the root
\* the indexer's tree has once those commitments are appended to its leaves.
C25_LeavesServed ==
    http.route = "/v1/leaves"
        => /\ http.status = 200
           /\ http.client = "ok"
           /\ http.agrees

----------------------------------------------------------------------------
(* The range circuit (r14-circuits range.rs), checked under SpecRange       *)

\* width of the bit decomposition (range.rs RANGE_BITS is 64, the width of
\* the u64 arguments of prove)
RANGE_BITS == 2

\* the u64 values
U64s == 0 .. (2^RANGE_BITS - 1)

\* u64::wrapping_sub
wrapping_sub(a, b) == (a - b + 2^RANGE_BITS) % 2^RANGE_BITS

\* subtraction in the field (&a - &b on FpVar)
FrSub(a, b) == Fr((a[1] - b[1] + FieldModulus) % FieldModulus)

\* x.into_bigint().as_ref()[0]: the low 64-bit limb of the canonical value
low_limb(f) == f[1] % 2^RANGE_BITS

\* sum = sum of bit_i * 2^i over the bits from position i on, in the field
RECURSIVE SumBits(_, _)
SumBits(native_val, i) ==
    IF i >= RANGE_BITS THEN 0
    ELSE ((native_val \div 2^i) % 2) * 2^i + SumBits(native_val, i + 1)

\* variant: the bits are allocated but the reconstruction is not enforced
enforce_range_bits_Unconstrained(val, native_val) == TRUE

\* enforce_range_bits: RANGE_BITS Boolean witnesses taken from native_val,
\* and the constraint that their weighted sum equals val.  The result is
\* whether the constraint holds under this assignment.
enforce_range_bits(val, native_val) ==
    Fr(SumBits(native_val, 0) % FieldModulus) = val

\* RangeCircuit with every field assigned
RangeCircuit(x, nonce, min, max) == [x |-> x, nonce |-> nonce, min |-> min, max |-> max]

\* RangeCircuit::generate_constraints followed by cs.is_satisfied(): the
\* public inputs, and whether the three constraints hold
RangeCircuit_generate_constraints(c) ==
    LET cm_pub == poseidon_hash(<<c.x, c.nonce>>)
        computed_cm == poseidon_hash(<<c.x, c.nonce>>)
        x_minus_min_native == wrapping_sub(low_limb(c.x), low_limb(c.min))
        max_minus_x_native == wrapping_sub(low_limb(c.max), low_limb(c.x))
    IN  [instance |-> <<c.min, c.max, cm_pub>>,
         satisfied |-> /\ computed_cm = cm_pub
                       /\ enforce_range_bits(FrSub(c.x, c.min), x_minus_min_native)
                       /\ enforce_range_bits(FrSub(c.max, c.x), max_minus_x_native)]

\* range::prove up to the call of Groth16::prove: the circuit it builds
range_prove(x, nonce, min, max) ==
    RangeCircuit(FrFromU64(x), nonce, FrFromU64(min), FrFromU64(max))

\* the nonces offered
RangeNonces == {Fr(1), Fr(2)}

InitRange ==
    /\ LedgerIdle
    /\ TreeIdle
    /\ IndexerIdle
    /\ SdkIdle
    /\ wit = <<>>
    /\ run = <<>>
    /\ rng = [op |-> "none", x |-> 0, min |-> 0, max |-> 0, instance |-> <<>>,
              sat |-> FALSE]

\* prove is called and the witness it built is tested against the constraints
RangeProve ==
    /\ rng.op = "none"
    /\ \E x \in U64s, min \in U64s, max \in U64s, nonce \in RangeNonces :
        LET cs == RangeCircuit_generate_constraints(range_prove(x, nonce, min, max)) IN
        rng' = [op |-> "prove", x |-> x, min |-> min, max |-> max,
                instance |-> cs.instance, sat |-> cs.satisfied]
    /\ UNCHANGED <<wit, run, ledgerVars, treeVars, indexerVars, sdkVars>>

NextRange == RangeProve
SpecRange == InitRange /\ [][NextRange]_vars

\* C31: for all 64-bit x, min and max, the RangeCircuit witness built by
\* prove satisfies the constraint system exactly when min <= x <= max:
\* x = min and x = max satisfy it, x = min - 1 and x = max + 1 do not,
\* because the bits of the wrapping difference do not sum to the field
\* difference.
C31_RangeExact ==
    rng.op = "prove"
        => /\ rng.sat <=> (rng.min <= rng.x /\ rng.x <= rng.max)
           /\ rng.x + 1 = rng.min => wrapping_sub(rng.x, rng.min) # FrSub(FrFromU64(rng.x), FrFromU64(rng.min))[1]

\* C31 witness: x is one below min, inside the upper bound, and the witness
\* does not satisfy the constraints
C31_Witness ==
    /\ rng.op = "prove"
    /\ rng.x + 1 = rng.min
    /\ rng.x <= rng.max
    /\ ~rng.sat

----------------------------------------------------------------------------
(* Wallet notes in the commands that submit on-chain, under SpecWallet      *)

MaxNotes == 2
MaxNoteValue == 2

\* wallet::NoteEntry, as far as the commands read it: the value, the leaf
\* index once the note is known to be on-chain, and the spent flag
NoteEntries == [value : 1..MaxNoteValue, index : {None, Some(0)}, spent : BOOLEAN]

\* the note lists a wallet file can hold
RECURSIVE Wallets(_)
Wallets(len) ==
    IF len = 0 THEN {<<>>}
    ELSE Wallets(len - 1)
            \cup {Append(w, n) : w \in {x \in Wallets(len - 1) : Len(x) = len - 1},
                                 n \in NoteEntries}

\* a note that was just created
NewEntry(value) == [value |-> value, index |-> None, spent |-> FALSE]

\* variant: a spent note can be selected
RECURSIVE position_NoSpentCheck(_, _, _)
position_NoSpentCheck(notes, value, i) ==
    IF i > Len(notes) THEN 0
    ELSE IF notes[i].value >= value /\ notes[i].index # None THEN i
    ELSE position_NoSpentCheck(notes, value, i + 1)

\* variant: the note's value is not compared with the amount
RECURSIVE position_AnyValue(_, _, _)
position_AnyValue(notes, value, i) ==
    IF i > Len(notes) THEN 0
    ELSE IF ~notes[i].spent /\ notes[i].index # None THEN i
    ELSE position_AnyValue(notes, value, i + 1)

\* notes.iter().position(|n| !n.spent && n.value >= value && n.index.is_some()),
\* as a position from 1, or 0 for None
RECURSIVE position(_, _, _)
position(notes, value, i) ==
    IF i > Len(notes) THEN 0
    ELSE IF ~notes[i].spent /\ notes[i].value >= value /\ notes[i].index # None THEN i
    ELSE position(notes, value, i + 1)

\* r14 deposit (commands::deposit::run): the note is pushed and the wallet
\* saved first; then, unless --local-only or the contract is not configured,
\* compute_new_root and invoke_contract("deposit"), each of which may fail.
\* notes is the wallet file after the command.
cli_deposit(wallet, value, local_only, configured, indexer_ok, submit_ok) ==
    LET saved == Append(wallet, NewEntry(value)) IN
    IF local_only THEN [res |-> "ok", onchain |-> FALSE, notes |-> saved]
    ELSE IF ~configured THEN [res |-> "ok", onchain |-> FALSE, notes |-> saved]
    ELSE IF ~indexer_ok THEN [res |-> "indexer failed", onchain |-> FALSE, notes |-> saved]
    ELSE IF ~submit_ok THEN [res |-> "submission failed", onchain |-> FALSE, notes |-> saved]
    ELSE [res |-> "ok", onchain |-> TRUE, notes |-> saved]

\* the wallet after a transfer was accepted: the consumed note spent, the
\* recipient's note and the change note added
AfterTransfer(notes, note_idx, value) ==
    Append(Append([notes EXCEPT ![note_idx].spent = TRUE], NewEntry(value)),
           [NewEntry(value) EXCEPT !.value = notes[note_idx].value - value])

\* the largest value among the unspent on-chain notes, 0 when there is none:
\* notes.iter().filter(..).map(|n| n.value).max().unwrap_or(0)
best_value(notes) ==
    LET vs == {notes[i].value : i \in {j \in 1..Len(notes) :
                                          ~notes[j].spent /\ notes[j].index # None}}
    IN  IF vs = {} THEN 0 ELSE CHOOSE m \in vs : \A v \in vs : v <= m

\* "build output notes": change = consumed_value - value on u64 (a
\* subtraction that leaves the type's range panics in a debug build and
\* wraps in a release build), note_0 = Note::new(value, app_tag, recipient),
\* note_1 = Note::new(change, app_tag, owner)
output_notes(consumed_value, app_tag, value) ==
    [consumed |-> [value |-> consumed_value, app_tag |-> app_tag],
     underflow |-> consumed_value < value,
     note_0 |-> [value |-> value, app_tag |-> app_tag],
     note_1 |-> [value |-> wrapping_sub(consumed_value, value), app_tag |-> app_tag]]

\* what a transfer gives back besides the notes: the position of the
\* selected note (0 for none), the error's best, the output notes it built
NoTransfer == [idx |-> 0, best |-> 0, out |-> <<>>]

\* r14 transfer (commands::transfer::run); app_tag is the tag of the
\* selected note
cli_transfer(wallet, app_tag, value, dry_run, configured, proof_ok, indexer_ok, submit_ok) ==
    LET note_idx == position(wallet, value, 1)
        out == output_notes(wallet[note_idx].value, app_tag, value)
        sel == [NoTransfer EXCEPT !.idx = note_idx]
        built == [sel EXCEPT !.out = out]
    IN
    IF note_idx = 0
    THEN [res |-> "no note", onchain |-> FALSE, notes |-> wallet, more |-> NoTransfer]
    ELSE IF ~proof_ok
    THEN [res |-> "indexer failed", onchain |-> FALSE, notes |-> wallet, more |-> sel]
    ELSE IF dry_run
    THEN [res |-> "ok", onchain |-> FALSE, notes |-> wallet, more |-> built]
    ELSE IF ~configured
    THEN [res |-> "not configured", onchain |-> FALSE, notes |-> wallet, more |-> built]
    ELSE IF ~indexer_ok
    THEN [res |-> "indexer failed", onchain |-> FALSE, notes |-> wallet, more |-> built]
    ELSE IF ~submit_ok
    THEN [res |-> "submission failed", onchain |-> FALSE, notes |-> wallet, more |-> built]
    ELSE [res |-> "ok", onchain |-> TRUE,
          notes |-> AfterTransfer(wallet, note_idx, value), more |-> built]

\* R14Client::transfer_with_proof
R14Client_transfer_with_proof(configured, indexer_ok, submit_ok) ==
    IF ~configured THEN "not configured"
    ELSE IF ~indexer_ok THEN "indexer failed"
    ELSE IF ~submit_ok THEN "submission failed"
    ELSE "ok"

\* R14Client::transfer on the caller's notes; app_tag is the tag of the
\* selected note
R14Client_transfer(notes, app_tag, value, configured, proof_ok, indexer_ok, submit_ok) ==
    LET note_idx == position(notes, value, 1)
        out == output_notes(notes[note_idx].value, app_tag, value)
        sel == [NoTransfer EXCEPT !.idx = note_idx]
        built == [sel EXCEPT !.out = out]
        result == R14Client_transfer_with_proof(configured, indexer_ok, submit_ok)
    IN
    IF ~configured
    THEN [res |-> "not configured", onchain |-> FALSE, notes |-> notes, more |-> NoTransfer]
    ELSE IF note_idx = 0
    THEN [res |-> "insufficient balance", onchain |-> FALSE, notes |-> notes,
          more |-> [NoTransfer EXCEPT !.best = best_value(notes)]]
    ELSE IF ~proof_ok
    THEN [res |-> "indexer failed", onchain |-> FALSE, notes |-> notes, more |-> sel]
    ELSE IF result # "ok"
    THEN [res |-> result, onchain |-> FALSE, notes |-> notes, more |-> built]
    ELSE [res |-> "ok", onchain |-> TRUE,
          notes |-> [notes EXCEPT ![note_idx].spent = TRUE], more |-> built]

InitWallet ==
    /\ LedgerIdle
    /\ CircuitIdle
    /\ TreeIdle
    /\ IndexerIdle
    /\ hx = <<>>
    /\ net = <<>>
    /\ \E w \in Wallets(MaxNotes) :
          cli = [op |-> "none", before |-> w, notes |-> w, res |-> "none",
                 onchain |-> FALSE, value |-> 0, configured |-> FALSE,
                 more |-> NoTransfer]

\* one run of r14 deposit
CliDeposit ==
    /\ cli.op = "none"
    /\ \E value \in 1..MaxNoteValue, local_only, configured, indexer_ok, submit_ok \in BOOLEAN :
        LET o == cli_deposit(cli.before, value, local_only, configured,
                             indexer_ok, submit_ok)
        IN  cli' = [op |-> "deposit", before |-> cli.before, notes |-> o.notes,
                    res |-> o.res, onchain |-> o.onchain, value |-> value,
                    configured |-> configured, more |-> NoTransfer]
    /\ UNCHANGED <<hx, net, ledgerVars, circuitVars, treeVars, indexerVars>>

\* one run of r14 transfer
CliTransfer ==
    /\ cli.op = "none"
    /\ \E value \in 1..MaxNoteValue, app_tag \in Tags,
          dry_run, configured, proof_ok, indexer_ok, submit_ok \in BOOLEAN :
        LET o == cli_transfer(cli.before, app_tag, value, dry_run, configured,
                              proof_ok, indexer_ok, submit_ok)
        IN  cli' = [op |-> "transfer", before |-> cli.before, notes |-> o.notes,
                    res |-> o.res, onchain |-> o.onchain, value |-> value,
                    configured |-> configured, more |-> o.more]
    /\ UNCHANGED <<hx, net, ledgerVars, circuitVars, treeVars, indexerVars>>

\* one call of R14Client::transfer
ClientTransfer ==
    /\ cli.op = "none"
    /\ \E value \in 1..MaxNoteValue, app_tag \in Tags,
          configured, proof_ok, indexer_ok, submit_ok \in BOOLEAN :
        LET o == R14Client_transfer(cli.before, app_tag, value, configured, proof_ok,
                                    indexer_ok, submit_ok)
        IN  cli' = [op |-> "client.transfer", before |-> cli.before, notes |-> o.notes,
                    res |-> o.res, onchain |-> o.onchain, value |-> value,
                    configured |-> configured, more |-> o.more]
    /\ UNCHANGED <<hx, net, ledgerVars, circuitVars, treeVars, indexerVars>>

NextWallet ==
    \/ CliDeposit
    \/ CliTransfer
    \/ ClientTransfer
SpecWallet == InitWallet /\ [][NextWallet]_vars

\* the positions of the notes a transfer of `value` may consume
Spendable(notes, value) ==
    {i \in 1..Len(notes) :
        ~notes[i].spent /\ notes[i].index # None /\ notes[i].value >= value}

\* the rest of C39, common to the statement and its amendment: the best of
\* InsufficientBalance, the notes after an error, the notes after a success
C39_Effects ==
    /\ cli.res = "insufficient balance"
          => /\ \A i \in 1..Len(cli.before) :
                   (~cli.before[i].spent /\ cli.before[i].index # None)
                       => cli.before[i].value <= cli.more.best
             /\ \/ \E i \in 1..Len(cli.before) :
                       /\ ~cli.before[i].spent
                       /\ cli.before[i].index # None
                       /\ cli.before[i].value = cli.more.best
                \/ /\ cli.more.best = 0
                   /\ \A i \in 1..Len(cli.before) :
                         cli.before[i].spent \/ cli.before[i].index = None
    /\ cli.res # "ok" => cli.notes = cli.before
    /\ cli.res = "ok"
          => /\ cli.more.idx \in Spendable(cli.before, cli.value)
             /\ \A i \in Spendable(cli.before, cli.value) : cli.more.idx <= i
             /\ cli.notes = [cli.before EXCEPT ![cli.more.idx].spent = TRUE]

\* C39 (as stated): R14Client.transfer consumes the first note in wallet
\* order that is unspent, has an on-chain index and has value >= the
\* requested amount, and returns InsufficientBalance (with best = the largest
\* value among unspent on-chain notes, 0 if none) exactly when no such note
\* exists; on every error return the notes are unchanged, and on success
\* exactly the selected note's spent flag changes from false to true.
C39_FirstFitOrInsufficient ==
    cli.op = "client.transfer"
        => /\ cli.res = "insufficient balance"
                <=> Spendable(cli.before, cli.value) = {}
           /\ C39_Effects

\* C39 (amended): the same, with InsufficientBalance returned exactly when
\* the transfer contract is configured and no such note exists; with no
\* transfer contract configured the call returns a Config error whatever the
\* notes are.
C39_FirstFitOrInsufficientWhenConfigured ==
    cli.op = "client.transfer"
        => /\ cli.res = "insufficient balance"
                <=> (cli.configured /\ Spendable(cli.before, cli.value) = {})
           /\ ~cli.configured => cli.res = "not configured"
           /\ C39_Effects

\* C39 witness: the first note is on-chain but too small, the second one is
\* large enough and was consumed.
C39_Witness ==
    /\ cli.op = "client.transfer"
    /\ cli.res = "ok"
    /\ Len(cli.before) = 2
    /\ ~cli.before[1].spent
    /\ cli.before[1].index # None
    /\ cli.before[1].value < cli.value
    /\ cli.more.idx = 2
    /\ cli.notes[2].spent

\* the part of the circuit's assignment the value and tag rules read
OutputAssignment(out) ==
    [consumed_value |-> FrFromU64(out.consumed.value),
     consumed_app_tag |-> FrFromU64(out.consumed.app_tag),
     created_values |-> <<FrFromU64(out.note_0.value), FrFromU64(out.note_1.value)>>,
     created_app_tags |-> <<FrFromU64(out.note_0.app_tag), FrFromU64(out.note_1.app_tag)>>]

\* C40: the output notes a wallet builds for a transfer always satisfy the
\* circuit's value and tag rules: change = consumed.value - value never
\* underflows because the selected note has value >= the requested amount,
\* recipient value + change value = consumed value as 64-bit integers, and
\* both output notes carry the consumed note's app_tag.
C40_OutputNotesBalanced ==
    (cli.op \in {"transfer", "client.transfer"} /\ cli.more.out # <<>>)
        => LET out == cli.more.out IN
           /\ out.consumed.value = cli.before[cli.more.idx].value
           /\ ~out.underflow
           /\ out.note_0.value = cli.value
           /\ out.note_0.value + out.note_1.value = out.consumed.value
           /\ out.note_0.value + out.note_1.value \in U64s
           /\ out.note_0.app_tag = out.consumed.app_tag
           /\ out.note_1.app_tag = out.consumed.app_tag
           /\ ValueConservation(OutputAssignment(out))
           /\ AppTagMatch(OutputAssignment(out))

\* C40 witness: a transfer of less than the selected note's value, with a
\* non-zero tag: the change note holds the difference.
C40_Witness ==
    /\ cli.op = "client.transfer"
    /\ cli.res = "ok"
    /\ cli.more.out # <<>>
    /\ cli.more.out.note_1.value > 0
    /\ cli.more.out.note_1.value < cli.more.out.consumed.value
    /\ cli.more.out.consumed.app_tag # 0

\* C26: wallet notes change only after the on-chain call returned success:
\* in r14 deposit, r14 transfer and R14Client.transfer, when the indexer
\* request or the ledger submission fails, the wallet holds the same notes
\* with the same spent flags as before; no note is added or marked spent
\* speculatively.
C26_NotesAfterSuccessOnly ==
    cli.res \in {"indexer failed", "submission failed"} => cli.notes = cli.before

----------------------------------------------------------------------------
(* Clients of one deployment, checked under SpecClients                     *)

\* clients that deposit and transfer at the same time
NumClients == 2
\* commitments the ledger takes before the model stops submitting
MaxEmitted == 3

\* R14Client::init_contracts: the verification key is registered and
\* R14Transfer.init is called with merkle::empty_root_hex()
init_contracts ==
    LET s1 == R14Core_init(CoreInitState, TransferInitState, "admin")
        s2 == R14Core_register(s1.core, s1.xfer, "admin", "admin", VK(TransferSetup))
    IN  R14Transfer_init(s2.core, s2.xfer, CoreAddr,
                         compute_circuit_id(VK(TransferSetup)),
                         serialize_fr(sdk_empty_root))

\* the body compute_new_root reads: a JSON object whose "leaves" member is
\* the array of the leaves as hex strings, in index order
LeavesResponse(leaves) ==
    [status |-> 200, json |-> TRUE,
     leaves |-> Some([i \in DOMAIN leaves |-> fr_to_hex(leaves[i])])]

\* compute_new_root up to the root itself: the leaves of the response are
\* decoded, the new commitments pushed and compute_root taken.  The hex
\* digits the function returns are parsed back into the 32 bytes of this
\* root when the contract is invoked.
compute_new_root_fr(resp, new_commitments) ==
    IF ~resp.json \/ resp.leaves = None THEN [res |-> "failed", root |-> Fr(0)]
    ELSE LET got == CollectLeaves(resp.leaves[1]) IN
         IF got.res # "ok" THEN [res |-> got.res, root |-> Fr(0)]
         ELSE [res |-> "ok", root |-> compute_root(got.leaves \o new_commitments)]

\* the commitments of the events a call published, in order
RECURSIVE EmittedCms(_)
EmittedCms(events) ==
    IF events = <<>> THEN <<>>
    ELSE LET ev == Head(events) IN
         (IF ev.topic = "deposit" THEN <<FrFromBytes(ev.data[1])>>
          ELSE IF ev.topic = "transfer"
          THEN <<FrFromBytes(ev.data[2]), FrFromBytes(ev.data[3])>>
          ELSE <<>>) \o EmittedCms(Tail(events))

InitClients ==
    /\ core = init_contracts.core
    /\ xfer = init_contracts.xfer
    /\ kernel = KernelInitState
    /\ last = NoCall
    /\ committed = {}
    /\ spent = {}
    /\ doubleSpend = FALSE
    /\ registry = <<>>
    /\ CircuitIdle
    /\ TreeIdle
    /\ IndexerIdle
    /\ hx = <<>>
    /\ cli = <<>>
    /\ net = [emitted |-> <<>>, indexed |-> 0,
              pending |-> [c \in 1..NumClients |-> None]]

\* R14Client::deposit and R14Client::transfer_with_proof up to the contract
\* call: client c asks the indexer for its leaves and computes new_root from
\* them and its own commitments; for a transfer the proof was made against
\* the root the indexer served
ClientPrepare(c) ==
    /\ net.pending[c] = None
    /\ \E kind \in {"deposit", "transfer"} :
        LET leaves == SubSeq(net.emitted, 1, net.indexed)
            cms == IF kind = "deposit" THEN <<Fr(c)>> ELSE <<Fr(c), Fr(c)>>
            got == compute_new_root_fr(LeavesResponse(leaves), cms)
        IN  /\ kind = "transfer" => leaves # <<>>
            /\ got.res = "ok"
            /\ net' = [net EXCEPT !.pending[c] =
                          Some([kind |-> kind, cms |-> cms,
                                old_root |-> serialize_fr(SparseMerkleTree_root(leaves)),
                                new_root |-> serialize_fr(got.root)])]
    /\ UNCHANGED <<hx, cli, ledgerVars, circuitVars, treeVars, indexerVars>>

\* the contract call of client c reaches the ledger
ClientSubmit(c) ==
    /\ net.pending[c] # None
    /\ LET p == net.pending[c][1]
           nullifier == serialize_fr(Fr(c))
           o == IF p.kind = "deposit"
                THEN R14Transfer_deposit(core, xfer, serialize_fr(p.cms[1]), p.new_root)
                ELSE R14Transfer_transfer(
                        core, xfer,
                        MkProof(TransferSetup,
                                PublicInputsOf(p.old_root, nullifier,
                                               serialize_fr(p.cms[1]),
                                               serialize_fr(p.cms[2])),
                                TRUE),
                        p.old_root, nullifier,
                        serialize_fr(p.cms[1]), serialize_fr(p.cms[2]), p.new_root)
       IN  /\ Len(net.emitted) + Len(EmittedCms(o.events)) <= MaxEmitted
           /\ xfer' = o.xfer
           /\ net' = [net EXCEPT !.pending[c] = None,
                                 !.emitted = @ \o EmittedCms(o.events)]
    /\ UNCHANGED <<hx, cli, core, kernel, last, committed, spent, doubleSpend, registry,
                   circuitVars, treeVars, indexerVars>>

\* the indexer has inserted every commitment emitted so far
IndexerCatchUp ==
    /\ net.indexed < Len(net.emitted)
    /\ net' = [net EXCEPT !.indexed = Len(net.emitted)]
    /\ UNCHANGED <<hx, cli, ledgerVars, circuitVars, treeVars, indexerVars>>

NextClients ==
    \/ \E c \in 1..NumClients : ClientPrepare(c)
    \/ \E c \in 1..NumClients : ClientSubmit(c)
    \/ IndexerCatchUp
SpecClients == InitClients /\ [][NextClients]_vars

====
